---- MODULE Spec2Model ----
(***************************************************************************)
(* A model of the conversational risk-assessment engine of SIH_backend:    *)
(*   app/nlp_config.py        thresholds, urgent keywords, severe emotions *)
(*   app/nlp_models.py        get_synonyms, is_synonym_in_set              *)
(*   app/nlp_services.py      analyze_sentiment, analyze_emotion,          *)
(*                            analyze_distress, calculate_risk_score       *)
(*   app/advanced_chatbot.py  MentalHealthChatbot                          *)
(*                                                                         *)
(* Scores are fixed-point numbers in hundredths (0.85 is 85); ratios are   *)
(* kept as exact fractions <<numerator, denominator>>.  Texts and labels   *)
(* are strings, lower-cased character by character.                        *)
(***************************************************************************)
EXTENDS Integers, Sequences, FiniteSets, TLC

VARIABLES
    \* analyze_distress, applied to one text (specification SpecDetect)
    d_text,       \* the text handed to analyze_distress
    d_raw_s,      \* what the sentiment backend answers for it
    d_raw_e,      \* what the emotion backend answers for it
    d_result,     \* the dictionary analyze_distress returned, or NotRun
    d_calls,      \* the classifier calls analyze_distress made, in order
    \* calculate_risk_score, applied to one history (specification SpecRisk)
    r_sentiments, \* the list of sentiment labels
    r_emotions,   \* the list of emotion labels, or PyNoneList
    r_thesaurus,  \* whether the WordNet look-up works during the call
    r_result,     \* the dictionary calculate_risk_score returned, or NotRun
    \* the MentalHealthChatbot instance (specifications Spec and SpecConc)
    sessions,              \* self.sessions: user_id -> session or NoSession
    conversation_history,  \* self.conversation_history: user_id -> list
    now,                   \* datetime.utcnow(), in hours
    last,                  \* the call that returned last, with its result
    last_call,             \* user_id -> when the latest get_reply of the
                           \* user's live session was called, or Never
    \* get_reply calls running in threads (specification SpecConc)
    threads,               \* thread -> where its call is, and its locals
    c_start,               \* sessions and histories before the calls began
    \* the HTTP routes (specifications SpecApi and SpecGamify)
    moods_collection,      \* db["moods"]: the documents, in insertion order
    streaks_collection,    \* db["streaks"]: user_id -> document or NoDoc
    api_response           \* the request answered last, with its response

detectVars == <<d_text, d_raw_s, d_raw_e, d_result, d_calls>>
riskVars == <<r_sentiments, r_emotions, r_thesaurus, r_result>>
chatVars == <<sessions, conversation_history, now, last, last_call>>

concVars == <<threads, c_start>>
apiVars == <<moods_collection, streaks_collection, api_response>>

vars == <<detectVars, riskVars, chatVars, concVars, apiVars>>

NotRun == [run |-> FALSE]

(***************************************************************************)
(* Bounds of the model.                                                    *)
(***************************************************************************)
MaxFrags == 2          \* a text is at most this many fragments long
MaxLabels == 2         \* a mixed label history is at most this long
MaxBlock == 7          \* a two-label history is at most this long
MaxHist == 4           \* a user's conversation history is at most this long
MaxPrefix == 3         \* the transition table is walked after at most this many turns
MaxOverlapTurns == 3   \* threads call again while fewer turns than this are recorded
MaxApiTurns == 2       \* the chatbot route is called while fewer turns are stored
MaxMoods == 2          \* the moods collection holds at most this many documents
MaxStreak == 2         \* update_streak is called while the streak is below this
MaxXp == 300           \* add_xp is called while the total stays at most this
MaxTicks == 2          \* the clock advances at most this many times

(***************************************************************************)
(* Strings.                                                                *)
(***************************************************************************)
UpperChars == "ABCDEFGHIJKLMNOPQRSTUVWXYZ"
LowerChars == "abcdefghijklmnopqrstuvwxyz"

\* the lower-case letter of every upper-case letter
LowerMap ==
    [c \in {SubSeq(UpperChars, i, i) : i \in 1..Len(UpperChars)} |->
        LET i == CHOOSE j \in 1..Len(UpperChars) : SubSeq(UpperChars, j, j) = c
        IN  SubSeq(LowerChars, i, i)]

\* str.lower() on one character
LowerChar(c) == IF c \in DOMAIN LowerMap THEN LowerMap[c] ELSE c

RECURSIVE StrLower(_)
\* str.lower()
StrLower(s) ==
    IF Len(s) = 0 THEN ""
    ELSE LowerChar(SubSeq(s, 1, 1)) \o StrLower(SubSeq(s, 2, Len(s)))

\* Python's `sub in s` on strings
StrContains(s, sub) ==
    \E i \in 1..(Len(s) - Len(sub) + 1) : SubSeq(s, i, i + Len(sub) - 1) = sub

\* the position of the first occurrence of sub in s (0 when there is none)
StrFind(s, sub) ==
    IF StrContains(s, sub)
    THEN CHOOSE i \in 1..(Len(s) - Len(sub) + 1) :
            /\ SubSeq(s, i, i + Len(sub) - 1) = sub
            /\ \A j \in 1..(i - 1) : SubSeq(s, j, j + Len(sub) - 1) # sub
    ELSE 0

\* f"{x:.2f}" of a score given in hundredths
Fmt2(n) ==
    ToString(n \div 100) \o "." \o ToString((n % 100) \div 10) \o ToString(n % 10)

SeqToSet(q) == {q[i] : i \in 1..Len(q)}

(***************************************************************************)
(* app/nlp_config.py                                                       *)
(***************************************************************************)
distress_confidence_threshold == 85

urgent_keywords ==
    << "suicide", "kill myself", "ending it all", "can't go on",
       "don't want to live", "hopeless", "no way out",
       "hurting myself", "want to die", "end it all" >>

severe_emotions ==
    << "sadness", "anger", "fear", "disgust", "shame",
       "guilt", "hopelessness", "despair", "rage" >>

(***************************************************************************)
(* The classification backend (an external collaborator).  One call either *)
(* raises, or returns a label and a score; nothing checks that the label   *)
(* is a string, so PyNone stands for a label that is not one.              *)
(***************************************************************************)
PyNone == "<None>"

BackendFails == [kind |-> "raise", label |-> PyNone, score |-> 0]
BackendSays(l, s) == [kind |-> "ok", label |-> l, score |-> s]

\* the `confidence` bucket of analyze_sentiment / analyze_emotion
ConfidenceBucket(score) ==
    IF score > 80 THEN "high" ELSE IF score > 60 THEN "medium" ELSE "low"

NeutralDefault ==
    [label |-> "neutral", score |-> 50, confidence |-> "low", error |-> TRUE]

\* a faulty variant of analyze_sentiment: a failure of the backend is
\* passed on as an answer without label
SentimentWithoutDefault(raw) ==
    [label |-> raw.label, score |-> raw.score,
     confidence |-> ConfidenceBucket(raw.score), error |-> raw.kind = "raise"]

\* analyze_sentiment(text), given what the backend does on this call
analyze_sentiment(raw) ==
    IF raw.kind = "raise" THEN NeutralDefault
    ELSE [label |-> raw.label, score |-> raw.score,
          confidence |-> ConfidenceBucket(raw.score), error |-> FALSE]

\* analyze_emotion(text), given what the backend does on this call
analyze_emotion(raw) ==
    IF raw.kind = "raise" THEN NeutralDefault
    ELSE [label |-> raw.label, score |-> raw.score,
          confidence |-> ConfidenceBucket(raw.score), error |-> FALSE]

\* label.lower() raises AttributeError when the label is not a string
LowerRaises(label) == label = PyNone

(***************************************************************************)
(* app/nlp_services.py: analyze_distress                                   *)
(***************************************************************************)
KeywordConfidence == 90
SentimentUrgentThreshold == 90
NoDistressConfidence == 10

\* a faulty variant of FirstKeyword: the keyword that occurs first in the text
FirstKeywordByPosition(text) ==
    LET lower_text == StrLower(text)
        hits == {i \in 1..Len(urgent_keywords) :
                     StrContains(lower_text, urgent_keywords[i])}
    IN  IF hits = {} THEN 0
        ELSE CHOOSE i \in hits : \A j \in hits :
                 \/ StrFind(lower_text, urgent_keywords[i])
                        < StrFind(lower_text, urgent_keywords[j])
                 \/ /\ StrFind(lower_text, urgent_keywords[i])
                          = StrFind(lower_text, urgent_keywords[j])
                    /\ i <= j

\* the loop of step 1: the index of the first keyword, in declaration
\* order, that occurs in the lower-cased text (0 when none does)
FirstKeyword(text) ==
    LET lower_text == StrLower(text)
        hits == {i \in 1..Len(urgent_keywords) :
                     StrContains(lower_text, urgent_keywords[i])}
    IN  IF hits = {} THEN 0
        ELSE CHOOSE i \in hits : \A j \in hits : i <= j

NegativeLabels == {"negative", "neg"}

DistressDict(urgent, reason, confidence) ==
    [run |-> TRUE, is_urgent |-> urgent, reason |-> reason,
     confidence |-> confidence,
     recommendation |-> IF urgent THEN "Seek immediate help"
                        ELSE "Continue monitoring"]

\* a faulty variant of SentimentRuleFires: the threshold itself fires
SentimentRuleFiresAtThreshold(sentiment) ==
    /\ StrLower(sentiment.label) \in NegativeLabels
    /\ sentiment.score >= SentimentUrgentThreshold

\* the test of the "very negative sentiment" branch
SentimentRuleFires(sentiment) ==
    /\ StrLower(sentiment.label) \in NegativeLabels
    /\ sentiment.score > SentimentUrgentThreshold

\* the test of the "severe emotions" branch: a literal look-up in the list
EmotionRuleFires(emotion) ==
    /\ StrLower(emotion.label) \in SeqToSet(severe_emotions)
    /\ emotion.score > distress_confidence_threshold

\* the except branch of analyze_distress
DistressError ==
    [run |-> TRUE, is_urgent |-> FALSE, reason |-> "Analysis error: ",
     confidence |-> 0, recommendation |-> "Manual review recommended"]

\* analyze_distress(text); raw_s and raw_e are what the backend does when
\* step 2 calls analyze_sentiment and analyze_emotion
analyze_distress(text, raw_s, raw_e) ==
    LET k == FirstKeyword(text)
        sentiment == analyze_sentiment(raw_s)
        emotion == analyze_emotion(raw_e)
    IN  IF k # 0
        THEN DistressDict(TRUE,
                 "Detected urgent keyword: '" \o urgent_keywords[k] \o "'",
                 KeywordConfidence)
        ELSE IF LowerRaises(sentiment.label) THEN DistressError
        ELSE IF SentimentRuleFires(sentiment)
        THEN DistressDict(TRUE,
                 "Very negative sentiment detected (score: "
                     \o Fmt2(sentiment.score) \o ")",
                 sentiment.score)
        ELSE IF LowerRaises(emotion.label) THEN DistressError
        ELSE IF EmotionRuleFires(emotion)
        THEN DistressDict(TRUE,
                 "Strong negative emotion detected: " \o emotion.label
                     \o " (score: " \o Fmt2(emotion.score) \o ")",
                 emotion.score)
        ELSE DistressDict(FALSE, "No urgent distress detected.",
                          NoDistressConfidence)

\* the classifier calls analyze_distress makes on this text, in order
DistressCalls(text) ==
    IF FirstKeyword(text) # 0 THEN << >> ELSE << "sentiment", "emotion" >>

(***************************************************************************)
(* Inputs of SpecDetect.                                                   *)
(***************************************************************************)
Fragments ==
    { "I feel ", "!", "ness", "Suicide", "KILL MYSELF", "hopeless" }

RECURSIVE TextsUpTo(_)
TextsUpTo(n) ==
    IF n = 0 THEN {""}
    ELSE LET shorter == TextsUpTo(n - 1)
         IN  shorter \cup {t \o f : t \in shorter, f \in Fragments}

Texts == TextsUpTo(MaxFrags)

RawSentiments ==
    { BackendFails, BackendSays(PyNone, 95),
      BackendSays("negative", 90), BackendSays("negative", 91),
      BackendSays("NEGATIVE", 91), BackendSays("neg", 91),
      BackendSays("positive", 91) }
RawEmotions ==
    { BackendFails, BackendSays(PyNone, 95),
      BackendSays("sadness", 85), BackendSays("sadness", 86),
      BackendSays("Fear", 86), BackendSays("joy", 86),
      BackendSays("sorrow", 86) }

DetectIdle ==
    /\ d_text = ""
    /\ d_raw_s = BackendFails
    /\ d_raw_e = BackendFails
    /\ d_result = NotRun
    /\ d_calls = << >>

DetectInit ==
    /\ d_text \in Texts
    /\ d_raw_s \in RawSentiments
    /\ d_raw_e \in RawEmotions
    /\ d_result = NotRun
    /\ d_calls = << >>

\* one call analyze_distress(d_text)
AnalyzeDistress ==
    /\ d_result = NotRun
    /\ d_result' = analyze_distress(d_text, d_raw_s, d_raw_e)
    /\ d_calls' = DistressCalls(d_text)
    /\ UNCHANGED <<d_text, d_raw_s, d_raw_e>>


(***************************************************************************)
(* Claims about analyze_distress (checked under SpecDetect).               *)
(***************************************************************************)
HasKeyword(text) ==
    \E i \in 1..Len(urgent_keywords) :
        StrContains(StrLower(text), urgent_keywords[i])

\* C6: a text that contains, after lower-casing, an urgent phrase is urgent
\* with confidence 0.9, recommendation "Seek immediate help" and the reason
\* naming the earliest phrase of the list (in declaration order) that occurs
\* in the text; no classifier is called.
C6_KeywordRule ==
    d_result # NotRun =>
        \A i \in 1..Len(urgent_keywords) :
            ( /\ StrContains(StrLower(d_text), urgent_keywords[i])
              /\ \A j \in 1..(i - 1) :
                     ~StrContains(StrLower(d_text), urgent_keywords[j]) )
            => /\ d_result.is_urgent = TRUE
               /\ d_result.confidence = 90
               /\ d_result.recommendation = "Seek immediate help"
               /\ d_result.reason
                      = "Detected urgent keyword: '" \o urgent_keywords[i] \o "'"
               /\ d_calls = << >>

\* C6 witness: analyze_distress has run on a text in mixed case in which a
\* later phrase of the list occurs before an earlier one.
C6_Witness ==
    /\ d_result # NotRun
    /\ d_text # StrLower(d_text)
    /\ \E i, j \in 1..Len(urgent_keywords) :
          /\ i < j
          /\ StrContains(StrLower(d_text), urgent_keywords[i])
          /\ StrContains(StrLower(d_text), urgent_keywords[j])
          /\ StrFind(StrLower(d_text), urgent_keywords[j])
                < StrFind(StrLower(d_text), urgent_keywords[i])
    /\ d_result.is_urgent

WellFormed(raw) == raw.kind = "raise" \/ raw.label # PyNone

ClassifierFailed(raw) == raw.kind = "raise"

\* what a rule sees of a classifier: nothing that matches when it failed
RuleFiresOn(raw, labels, threshold) ==
    /\ ~ClassifierFailed(raw)
    /\ StrLower(raw.label) \in labels
    /\ raw.score > threshold

\* C16: when a classifier fails on a text without urgent keyword (the other
\* one answering with a string label, if at all), the result is urgent
\* exactly if the rule of the other classifier fires, and a result that is
\* not urgent has the classifier error in its reason.
C16_ClassifierFailureRecorded ==
    ( /\ d_result # NotRun
      /\ ~HasKeyword(d_text)
      /\ ClassifierFailed(d_raw_s) \/ ClassifierFailed(d_raw_e)
      /\ WellFormed(d_raw_s) /\ WellFormed(d_raw_e) ) =>
        /\ d_result.is_urgent =
              \/ RuleFiresOn(d_raw_s, NegativeLabels, SentimentUrgentThreshold)
              \/ RuleFiresOn(d_raw_e, SeqToSet(severe_emotions),
                             distress_confidence_threshold)
        /\ ~d_result.is_urgent =>
              StrContains(StrLower(d_result.reason), "error")

(***************************************************************************)
(* app/nlp_models.py: get_synonyms, is_synonym_in_set.  WordNet is an      *)
(* external collaborator; WordNetLemmas lists the lower-cased lemma names  *)
(* of the synsets of the words that occur as labels here.                  *)
(***************************************************************************)
WordNetLemmas(word) ==
    CASE word = "sorry" ->
            {"regretful", "sorry", "bad", "deplorable", "distressing",
             "lamentable", "pitiful", "sad", "dreary", "dismal", "gloomy"}
      [] word = "sorrow" ->
            {"sorrow", "sadness", "sorrowfulness", "grief", "regret", "rue",
             "ruefulness", "grieve"}
      [] word = "sadness" ->
            {"sadness", "unhappiness", "sorrow", "sorrowfulness",
             "gloominess", "lugubriousness"}
      [] word = "fear" \/ word = "fears" ->    \* synsets() reduces "fears"
            {"fear", "fearfulness", "fright", "concern", "care", "dread",
             "reverence", "awe", "veneration"}
      [] word = "joy" ->
            {"joy", "joyousness", "joyfulness", "delight", "pleasure",
             "rejoice", "gladden"}
      [] word = "negative" ->
            {"negative", "veto", "blackball", "electronegative",
             "disconfirming", "damaging", "minus"}
      [] word = "positive" ->
            {"positive", "positive_degree", "plus", "confirming",
             "convinced", "confident", "incontrovertible", "irrefutable",
             "electropositive", "prescribed", "positivist"}
      [] OTHER -> {}

\* get_synonyms(word): the empty set when the look-up raises
get_synonyms(word, thesaurus_up) ==
    IF thesaurus_up THEN WordNetLemmas(word) ELSE {}

\* a faulty variant of is_synonym_in_set: the members of the reference set
\* are expanded as well
MatchesEitherWay(label, ref_set, thesaurus_up) ==
    LET label_lower == StrLower(label)
    IN  \/ label_lower \in ref_set
        \/ get_synonyms(label_lower, thesaurus_up) \cap ref_set # {}
        \/ \E member \in ref_set :
              label_lower \in get_synonyms(member, thesaurus_up)

\* is_synonym_in_set(label, ref_set)
is_synonym_in_set(label, ref_set, thesaurus_up) ==
    LET label_lower == StrLower(label)
    IN  IF label_lower \in ref_set THEN TRUE
        ELSE get_synonyms(label_lower, thesaurus_up) \cap ref_set # {}

(***************************************************************************)
(* app/nlp_services.py: calculate_risk_score                               *)
(***************************************************************************)
PyNoneList == << PyNone >>       \* emotions=None
PyNoneNum == -1                  \* "emotion_risk": None

negative_ref == {"negative", "neg", "bad", "sad", "angry", "upset", "unhappy"}

\* Python's truth value of the emotions argument
Truthy(emotions) == emotions # PyNoneList /\ Len(emotions) > 0

RECURSIVE Gcd(_, _)
Gcd(a, b) == IF b = 0 THEN a ELSE Gcd(b, a % b)

RECURSIVE IsPow2(_)
IsPow2(d) == d = 1 \/ (d > 1 /\ d % 2 = 0 /\ IsPow2(d \div 2))

\* a fraction <<n, d>> that a binary float holds exactly
Dyadic(f) == IsPow2(f[2] \div Gcd(f[1], f[2]))

\* a faulty variant of CountMatching: stops at the first label that does
\* not match
RECURSIVE CountLeadingMatching(_, _, _)
CountLeadingMatching(labels, ref_set, thesaurus_up) ==
    IF Len(labels) = 0 THEN 0
    ELSE IF is_synonym_in_set(Head(labels), ref_set, thesaurus_up)
         THEN 1 + CountLeadingMatching(Tail(labels), ref_set, thesaurus_up)
         ELSE 0

\* sum(1 for x in labels if is_synonym_in_set(x, ref_set))
RECURSIVE CountMatching(_, _, _)
CountMatching(labels, ref_set, thesaurus_up) ==
    IF Len(labels) = 0 THEN 0
    ELSE (IF is_synonym_in_set(Head(labels), ref_set, thesaurus_up)
          THEN 1 ELSE 0)
         + CountMatching(Tail(labels), ref_set, thesaurus_up)

\* round(x, 2) of the float computed for the fraction f, in hundredths.
\* Python rounds the binary value correctly: a tie is broken to the even
\* digit when the float holds the value exactly; otherwise the float lies
\* just above or just below the tie (tie_up says which).
Round2(f, exact, tie_up) ==
    LET q == (100 * f[1]) \div f[2]
        r == (100 * f[1]) % f[2]
    IN  IF 2 * r < f[2] THEN q
        ELSE IF 2 * r > f[2] THEN q + 1
        ELSE IF exact THEN (IF q % 2 = 0 THEN q ELSE q + 1)
        ELSE IF tie_up THEN q + 1 ELSE q

HighRisk == 7      \* overall_risk > 0.7, in tenths
MediumRisk == 4    \* overall_risk > 0.4, in tenths

\* a faulty variant of RiskLevel: the tiers are decided on the rounded value
RiskLevelOfRounded(overall) ==
    LET shown == Round2(overall, TRUE, TRUE)
    IN  IF shown > 10 * HighRisk THEN "high"
        ELSE IF shown > 10 * MediumRisk THEN "medium"
        ELSE "low"

\* the if/elif/else on overall_risk
RiskLevel(overall) ==
    IF 10 * overall[1] > HighRisk * overall[2] THEN "high"
    ELSE IF 10 * overall[1] > MediumRisk * overall[2] THEN "medium"
    ELSE "low"

RiskAdvice(level) ==
    CASE level = "high" -> "Immediate attention recommended"
      [] level = "medium" -> "Monitor closely and consider intervention"
      [] OTHER -> "Continue current support level"

RiskRecommendations(level) ==
    CASE level = "high" ->
            << "Consider professional mental health support",
               "Increase monitoring frequency",
               "Implement immediate coping strategies" >>
      [] level = "medium" ->
            << "Schedule regular check-ins",
               "Practice stress management techniques",
               "Consider talking to a counselor" >>
      [] OTHER ->
            << "Maintain regular check-ins",
               "Continue current coping strategies" >>

NoHistoryResult ==
    [run |-> TRUE, risk_score |-> 0, level |-> "low",
     advice |-> "No history to analyze.",
     recommendations |-> << "Continue regular check-ins" >>,
     sentiment_risk |-> PyNoneNum, emotion_risk |-> PyNoneNum,
     has_parts |-> FALSE]

\* a faulty variant of SentimentRisk: the ratio of the labels that do not
\* match
SentimentRiskOfOthers(sentiments, thesaurus_up) ==
    IF Len(sentiments) > 0
    THEN << Len(sentiments)
                - CountMatching(sentiments, negative_ref, thesaurus_up),
            Len(sentiments) >>
    ELSE << 0, 1 >>

\* sentiment_risk, as a fraction
SentimentRisk(sentiments, thesaurus_up) ==
    IF Len(sentiments) > 0
    THEN << CountMatching(sentiments, negative_ref, thesaurus_up),
            Len(sentiments) >>
    ELSE << 0, 1 >>

\* emotion_risk, as a fraction
EmotionRisk(emotions, thesaurus_up) ==
    IF Truthy(emotions)
    THEN << CountMatching(emotions, SeqToSet(severe_emotions), thesaurus_up),
            Len(emotions) >>
    ELSE << 0, 1 >>

\* a faulty variant of OverallRisk: the average is always taken
OverallRiskAlwaysAveraged(sentiments, emotions, thesaurus_up) ==
    LET sr == SentimentRisk(sentiments, thesaurus_up)
        er == EmotionRisk(emotions, thesaurus_up)
    IN  << sr[1] * er[2] + er[1] * sr[2], 2 * sr[2] * er[2] >>

\* a faulty variant of OverallRisk: with no sentiments the emotion ratio is
\* taken alone
OverallRiskOfGivenParts(sentiments, emotions, thesaurus_up) ==
    LET sr == SentimentRisk(sentiments, thesaurus_up)
        er == EmotionRisk(emotions, thesaurus_up)
    IN  IF ~Truthy(emotions) THEN sr
        ELSE IF Len(sentiments) = 0 THEN er
        ELSE << sr[1] * er[2] + er[1] * sr[2], 2 * sr[2] * er[2] >>

\* overall_risk, as a fraction
OverallRisk(sentiments, emotions, thesaurus_up) ==
    LET sr == SentimentRisk(sentiments, thesaurus_up)
        er == EmotionRisk(emotions, thesaurus_up)
    IN  IF Truthy(emotions)
        THEN << sr[1] * er[2] + er[1] * sr[2], 2 * sr[2] * er[2] >>
        ELSE sr

\* calculate_risk_score(sentiments, emotions); tie_up says on which side of
\* a tie an inexact float lies
calculate_risk_score(sentiments, emotions, thesaurus_up, tie_up) ==
    LET total_sentiments == Len(sentiments)
        total_emotions == IF Truthy(emotions) THEN Len(emotions) ELSE 0
        sr == SentimentRisk(sentiments, thesaurus_up)
        er == EmotionRisk(emotions, thesaurus_up)
        overall == OverallRisk(sentiments, emotions, thesaurus_up)
        level == RiskLevel(overall)
    IN  IF total_sentiments = 0 /\ total_emotions = 0
        THEN NoHistoryResult
        ELSE [run |-> TRUE,
              risk_score |-> Round2(overall,
                                 Dyadic(sr) /\ Dyadic(er), tie_up),
              level |-> level,
              advice |-> RiskAdvice(level),
              recommendations |-> RiskRecommendations(level),
              sentiment_risk |-> Round2(sr, Dyadic(sr), tie_up),
              emotion_risk |-> IF Truthy(emotions)
                               THEN Round2(er, Dyadic(er), tie_up)
                               ELSE PyNoneNum,
              has_parts |-> TRUE]

(***************************************************************************)
(* Inputs of SpecRisk: every list of at most MaxLabels labels, the lists of *)
(* at most MaxBlock labels made of one matching label followed by one      *)
(* label that does not match, and one inflected emotion label.             *)
(***************************************************************************)
RiskSentimentLabels == {"NEGATIVE", "positive", "sorry"}
RiskEmotionLabels == {"sadness", "joy", "sorrow"}

RECURSIVE ListsUpTo(_, _)
ListsUpTo(labels, n) ==
    IF n = 0 THEN {<< >>}
    ELSE LET shorter == ListsUpTo(labels, n - 1)
         IN  shorter \cup {Append(q, l) : q \in shorter, l \in labels}

Block(a, la, b, lb) == [i \in 1..(a + b) |-> IF i <= a THEN la ELSE lb]

BlockLists(la, lb) ==
    UNION {{Block(a, la, b, lb) : a \in 0..(MaxBlock - b)} : b \in 0..MaxBlock}

SentimentHistories ==
    ListsUpTo(RiskSentimentLabels, MaxLabels)
        \cup BlockLists("negative", "positive")
EmotionHistories ==
    ListsUpTo(RiskEmotionLabels, MaxLabels)
        \cup BlockLists("Fear", "joy") \cup {<< "fears" >>, PyNoneList}

RiskIdle ==
    /\ r_sentiments = << >>
    /\ r_emotions = PyNoneList
    /\ r_thesaurus = TRUE
    /\ r_result = NotRun

RiskInit ==
    /\ r_sentiments \in SentimentHistories
    /\ r_emotions \in EmotionHistories
    /\ r_thesaurus \in BOOLEAN
    /\ r_result = NotRun

\* one call calculate_risk_score(r_sentiments, r_emotions)
CalculateRiskScore ==
    /\ r_result = NotRun
    /\ \E tie_up \in BOOLEAN :
          r_result' = calculate_risk_score(r_sentiments, r_emotions,
                                           r_thesaurus, tie_up)
    /\ UNCHANGED <<r_sentiments, r_emotions, r_thesaurus>>

(***************************************************************************)
(* Claims about calculate_risk_score (checked under SpecRisk).             *)
(***************************************************************************)
\* the number of labels of a list that match a category
Matching(labels, ref_set) ==
    Cardinality({i \in 1..Len(labels) :
                    is_synonym_in_set(labels[i], ref_set, r_thesaurus)})

NegativeCount == Matching(r_sentiments, negative_ref)
SevereCount ==
    IF Truthy(r_emotions)
    THEN Matching(r_emotions, SeqToSet(severe_emotions)) ELSE 0

\* the overall risk of the history in hand, as a fraction <<n, d>>
ExactOverall ==
    LET sn == IF Len(r_sentiments) > 0 THEN NegativeCount ELSE 0
        sd == IF Len(r_sentiments) > 0 THEN Len(r_sentiments) ELSE 1
    IN  IF Truthy(r_emotions)
        THEN << sn * Len(r_emotions) + SevereCount * sd,
                2 * sd * Len(r_emotions) >>
        ELSE << sn, sd >>

\* shown (in hundredths) is the fraction n/d rounded to two decimals
IsRounded(shown, n, d) ==
    /\ 2 * (100 * n - shown * d) <= d
    /\ 2 * (shown * d - 100 * n) <= d

ScenarioC ==
    /\ r_result # NotRun
    /\ r_sentiments = << "negative", "negative", "positive" >>
    /\ r_emotions = PyNoneList

TwoThirdsNegative ==
    /\ r_result # NotRun
    /\ Len(r_sentiments) > 0
    /\ 3 * NegativeCount = 2 * Len(r_sentiments)
    /\ ~Truthy(r_emotions)

\* C8 as stated: Scenario C returns sentiment_risk 0.67, value 0.67 and level
\* "high", and a history with two thirds negative labels and no emotions is
\* classified high.
C8_ScenarioC_High ==
    /\ ScenarioC =>
          /\ r_result.sentiment_risk = 67
          /\ r_result.risk_score = 67
          /\ r_result.level = "high"
    /\ TwoThirdsNegative => r_result.level = "high"

\* C8 as amended: Scenario C returns sentiment_risk 0.67, value 0.67 and
\* level "medium" (0.67 is not above 0.7), and a history with two thirds
\* negative labels and no emotions is classified medium.
C8_ScenarioC_Medium ==
    /\ ScenarioC =>
          /\ r_result.sentiment_risk = 67
          /\ r_result.risk_score = 67
          /\ r_result.level = "medium"
    /\ TwoThirdsNegative =>
          /\ r_result.risk_score = 67
          /\ r_result.level = "medium"

\* C8 witness: Scenario C has been scored.
C8_Witness == ScenarioC /\ r_result.level = "medium"

Swap(q, i, j) ==
    [k \in 1..Len(q) |-> IF k = i THEN q[j] ELSE IF k = j THEN q[i] ELSE q[k]]

\* C9: with no history the fixed result is returned; otherwise the ratios
\* are matching-count / length, overall is their mean when emotions are
\* supplied and the sentiment ratio otherwise, the value lies in [0,1], and
\* exchanging two neighbouring labels of either list (the exchanges every
\* permutation is made of) leaves the result unchanged.
C9_CountsOnly ==
    r_result # NotRun =>
        IF Len(r_sentiments) = 0 /\ ~Truthy(r_emotions)
        THEN /\ r_result.risk_score = 0
             /\ r_result.level = "low"
             /\ r_result.advice = "No history to analyze."
             /\ r_result.recommendations = << "Continue regular check-ins" >>
        ELSE /\ IF Len(r_sentiments) = 0
                THEN r_result.sentiment_risk = 0
                ELSE IsRounded(r_result.sentiment_risk,
                               NegativeCount, Len(r_sentiments))
             /\ IF Truthy(r_emotions)
                THEN IsRounded(r_result.emotion_risk,
                               SevereCount, Len(r_emotions))
                ELSE r_result.emotion_risk = PyNoneNum
             /\ IsRounded(r_result.risk_score, ExactOverall[1], ExactOverall[2])
             /\ r_result.risk_score >= 0 /\ r_result.risk_score <= 100
             /\ \A i \in 1..(Len(r_sentiments) - 1) :
                   \E t \in BOOLEAN :
                      r_result = calculate_risk_score(
                                     Swap(r_sentiments, i, i + 1),
                                     r_emotions, r_thesaurus, t)
             /\ Truthy(r_emotions) =>
                   \A i \in 1..(Len(r_emotions) - 1) :
                      \E t \in BOOLEAN :
                         r_result = calculate_risk_score(r_sentiments,
                                        Swap(r_emotions, i, i + 1),
                                        r_thesaurus, t)

\* C9 witness: a scored history whose sentiments start with a label that
\* does not match and go on with one that does, with emotions supplied.
C9_Witness ==
    /\ r_result # NotRun
    /\ Len(r_sentiments) >= 2
    /\ ~is_synonym_in_set(r_sentiments[1], negative_ref, r_thesaurus)
    /\ is_synonym_in_set(r_sentiments[2], negative_ref, r_thesaurus)
    /\ Truthy(r_emotions)
    /\ SevereCount > 0 /\ SevereCount < Len(r_emotions)

\* C10: for a non-empty history the level is decided on the unrounded
\* overall value: high iff overall > 0.7, medium iff 0.4 < overall <= 0.7,
\* low otherwise, with 3, 3 and 2 recommendations.
C10_TiersOnUnrounded ==
    (r_result # NotRun /\ r_result.has_parts) =>
        LET n == ExactOverall[1]
            d == ExactOverall[2]
        IN  /\ (r_result.level = "high") = (10 * n > 7 * d)
            /\ (r_result.level = "medium") = (10 * n > 4 * d /\ 10 * n <= 7 * d)
            /\ (r_result.level = "low") = (10 * n <= 4 * d)
            /\ r_result.level = "high" => Len(r_result.recommendations) = 3
            /\ r_result.level = "medium" => Len(r_result.recommendations) = 3
            /\ r_result.level = "low" => Len(r_result.recommendations) = 2

\* C10 witness: an overall value above 0.7 that is reported as 0.70 and
\* classified high.
C10_Witness ==
    /\ r_result # NotRun
    /\ r_result.has_parts
    /\ r_result.risk_score = 70
    /\ r_result.level = "high"

(***************************************************************************)
(* app/advanced_chatbot.py: MentalHealthChatbot.  A session's created_at   *)
(* and a turn's timestamp are written and never read; they are left out.   *)
(***************************************************************************)
Users == {"u1", "u2"}

\* timedelta(hours=24) of _cleanup_old_sessions
SESSION_TTL_HOURS == 24
\* the hours that may pass between two calls
TickSteps == {16}

NoSession == [exists |-> FALSE]
NoHistory == [exists |-> FALSE]
HistoryOf(turns) == [exists |-> TRUE, turns |-> turns]

CrisisMessage ==
    "I'm concerned about what you're sharing. Your safety is important. "
    \o "Please consider reaching out to a mental health professional or crisis hotline immediately. "
    \o "In the US, you can call 988 for the Suicide & Crisis Lifeline, or text HOME to 741741 for Crisis Text Line. "
    \o "You're not alone, and there are people who want to help. Would you like me to help you find resources?"

FallbackMessage ==
    "I'm having trouble processing that right now. Please try again, and remember that I'm here to listen and support you."

GreetingNegativeReply ==
    "Hi. I can sense you might be going through a tough time. I'm here to listen. What's been on your mind?"
GreetingReply ==
    "Hi! I'm here to listen and support you. How are you feeling today?"
CheckingInNegativeReply ==
    "I can hear that you're going through a difficult time. "
    \o "It takes courage to share these feelings. Can you tell me more about what's been troubling you?"
CheckingInOkayReply ==
    "It's good to hear that you're doing okay. "
    \o "Is there anything specific you'd like to talk about or work through today?"
ExploringReply ==
    "Thank you for sharing that with me. It sounds like you're dealing with a lot right now. How long have you been feeling this way?"
SupportStrongReply ==
    "I can really feel the intensity of what you're experiencing. "
    \o "Remember, it's okay to feel this way, and you're not alone. "
    \o "Would you like to explore some coping strategies that might help?"
SupportReply ==
    "I appreciate you opening up about this. "
    \o "Sometimes talking about our feelings can help us process them. "
    \o "What would be most helpful for you right now?"
CopingReply ==
    "Here are some strategies that might help: deep breathing, going for a walk, or talking to someone you trust."
    \o " Is there anything specific you'd like to try?"
DefaultReply ==
    "I'm here to listen and support you. "
    \o "Can you tell me more about what you're experiencing or what you'd like to work through?"

\* _initialize_session
_initialize_session(S, H, user_id, t) ==
    [sessions |-> [S EXCEPT ![user_id] =
                      [exists |-> TRUE, state |-> "greeting", step |-> 0,
                       context |-> {}, last_activity |-> t]],
     history |-> [H EXCEPT ![user_id] = HistoryOf(<< >>)]]

\* _update_session(user_id, state=..., step=...)
_update_session(S, user_id, state, step, t) ==
    IF S[user_id].exists
    THEN [S EXCEPT ![user_id].state = state, ![user_id].step = step,
                   ![user_id].last_activity = t]
    ELSE S

\* a faulty variant of _add_to_history: the turn is appended to every
\* history there is
AddToEveryHistory(H, user_id, message, response, analysis) ==
    LET turn == [user_message |-> message, bot_response |-> response,
                 analysis |-> analysis]
    IN  [u \in Users |->
            IF H[u].exists THEN HistoryOf(Append(H[u].turns, turn))
            ELSE IF u = user_id THEN HistoryOf(<< turn >>)
            ELSE H[u]]

\* a faulty variant of _add_to_history: the turn is put in front
PrependToHistory(H, user_id, message, response, analysis) ==
    LET turns == IF H[user_id].exists THEN H[user_id].turns ELSE << >>
    IN  [H EXCEPT ![user_id] =
            HistoryOf(<< [user_message |-> message, bot_response |-> response,
                          analysis |-> analysis] >> \o turns)]

\* _add_to_history
_add_to_history(H, user_id, message, response, analysis) ==
    LET turns == IF H[user_id].exists THEN H[user_id].turns ELSE << >>
    IN  [H EXCEPT ![user_id] =
            HistoryOf(Append(turns, [user_message |-> message,
                                     bot_response |-> response,
                                     analysis |-> analysis]))]

\* the users _cleanup_old_sessions removes at time t
Expired(S, t) ==
    {u \in Users : S[u].exists /\ S[u].last_activity < t - SESSION_TTL_HOURS}

\* a faulty variant of _cleanup_old_sessions: the history is kept
CleanupKeepsHistory(S, H, t) ==
    [sessions |-> [u \in Users |->
                      IF u \in Expired(S, t) THEN NoSession ELSE S[u]],
     history |-> H]

\* _cleanup_old_sessions
_cleanup_old_sessions(S, H, t) ==
    [sessions |-> [u \in Users |->
                      IF u \in Expired(S, t) THEN NoSession ELSE S[u]],
     history |-> [u \in Users |->
                      IF u \in Expired(S, t) THEN NoHistory ELSE H[u]]]

\* the result of a state handler: the sessions after it, its reply, and
\* whether it raised
Handled(S, reply) == [sessions |-> S, reply |-> reply, raised |-> FALSE]
Raised(S) == [sessions |-> S, reply |-> "", raised |-> TRUE]

DialogueNegative(sentiment) == StrLower(sentiment.label) \in {"negative", "neg"}

_handle_greeting(S, user_id, sentiment, emotion, t) ==
    LET S1 == _update_session(S, user_id, "checking_in", 1, t)
    IN  IF LowerRaises(sentiment.label) THEN Raised(S1)
        ELSE IF DialogueNegative(sentiment)
             THEN Handled(S1, GreetingNegativeReply)
             ELSE Handled(S1, GreetingReply)

\* a faulty variant of _handle_checking_in: the emotion is not looked at
CheckingInBySentimentOnly(S, user_id, sentiment, emotion, t) ==
    IF LowerRaises(sentiment.label) THEN Raised(S)
    ELSE IF DialogueNegative(sentiment)
    THEN Handled(_update_session(S, user_id, "exploring_feelings", 2, t),
                 CheckingInNegativeReply)
    ELSE Handled(_update_session(S, user_id, "providing_support", 2, t),
                 CheckingInOkayReply)

_handle_checking_in(S, user_id, sentiment, emotion, t) ==
    IF LowerRaises(sentiment.label) THEN Raised(S)
    ELSE IF DialogueNegative(sentiment)
    THEN Handled(_update_session(S, user_id, "exploring_feelings", 2, t),
                 CheckingInNegativeReply)
    ELSE IF LowerRaises(emotion.label) THEN Raised(S)
    ELSE IF StrLower(emotion.label) \in {"sadness", "anger", "fear"}
    THEN Handled(_update_session(S, user_id, "exploring_feelings", 2, t),
                 CheckingInNegativeReply)
    ELSE Handled(_update_session(S, user_id, "providing_support", 2, t),
                 CheckingInOkayReply)

\* a faulty variant of _handle_exploring_feelings: the dialogue goes back to
\* checking_in
ExploringGoesBack(S, user_id, sentiment, emotion, t) ==
    Handled(_update_session(S, user_id, "checking_in", 1, t), ExploringReply)

_handle_exploring_feelings(S, user_id, sentiment, emotion, t) ==
    Handled(_update_session(S, user_id, "providing_support", 3, t),
            ExploringReply)

StrongSentiment == 70

_handle_providing_support(S, user_id, sentiment, emotion, t) ==
    LET S1 == _update_session(S, user_id, "coping_strategies", 4, t)
    IN  IF sentiment.score > StrongSentiment
        THEN Handled(S1, SupportStrongReply)
        ELSE Handled(S1, SupportReply)

_handle_coping_strategies(S, user_id, sentiment, emotion, t) ==
    Handled(S, CopingReply)

_handle_default(S, user_id, sentiment, emotion, t) ==
    Handled(S, DefaultReply)

\* the if/elif chain of get_reply on the state read from the session
Dispatch(state, S, user_id, sentiment, emotion, t) ==
    CASE state = "greeting" ->
            _handle_greeting(S, user_id, sentiment, emotion, t)
      [] state = "checking_in" ->
            _handle_checking_in(S, user_id, sentiment, emotion, t)
      [] state = "exploring_feelings" ->
            _handle_exploring_feelings(S, user_id, sentiment, emotion, t)
      [] state = "providing_support" ->
            _handle_providing_support(S, user_id, sentiment, emotion, t)
      [] state = "coping_strategies" ->
            _handle_coping_strategies(S, user_id, sentiment, emotion, t)
      [] OTHER ->
            _handle_default(S, user_id, sentiment, emotion, t)

(***************************************************************************)
(* The inputs of a turn: the message with the answers of the two           *)
(* classification backends for it.                                         *)
(***************************************************************************)
TurnInput(message, raw_s, raw_e) ==
    [message |-> message, raw_s |-> raw_s, raw_e |-> raw_e]

PlainTurn == TurnInput("hi", BackendSays("positive", 60), BackendSays("joy", 60))
LowTurn ==
    TurnInput("I feel low", BackendSays("NEGATIVE", 80), BackendSays("sadness", 70))
KeywordTurn ==
    TurnInput("I feel Hopeless", BackendSays("negative", 80),
              BackendSays("sadness", 70))
MalformedTurn == TurnInput("hi", BackendSays(PyNone, 95), BackendSays("joy", 60))
BackendDownTurn == TurnInput("hi", BackendFails, BackendFails)

\* what each user may send
TurnInputs ==
    [u \in Users |->
        IF u = "u1"
        THEN {PlainTurn, LowTurn, KeywordTurn}
        ELSE {KeywordTurn, MalformedTurn, BackendDownTurn}]

\* what the backends may answer for a message when the transition table is
\* walked (specification SpecTable)
TableSentiments ==
    { BackendFails, BackendSays(PyNone, 95), BackendSays("positive", 60),
      BackendSays("NEGATIVE", 80), BackendSays("Neg", 50),
      BackendSays("neutral", 75) }
TableEmotions ==
    { BackendFails, BackendSays(PyNone, 95), BackendSays("joy", 60),
      BackendSays("Sadness", 70), BackendSays("anger", 50),
      BackendSays("FEAR", 60), BackendSays("surprise", 90),
      BackendSays("sadness", 95) }
TableInputs ==
    {TurnInput("hi", raw_s, raw_e) :
        raw_s \in TableSentiments, raw_e \in TableEmotions}
    \cup {KeywordTurn}

AllTurnInputs == UNION {TurnInputs[u] : u \in Users} \cup TableInputs

\* lines 76-79 of get_reply: the three analyses of the message
Analyze(inp) ==
    [sentiment |-> analyze_sentiment(inp.raw_s),
     emotion |-> analyze_emotion(inp.raw_e),
     distress |-> analyze_distress(inp.message, inp.raw_s, inp.raw_e)]

\* Analyze, evaluated once for every input
AnalysisOf == [inp \in AllTurnInputs |-> Analyze(inp)]

\* a faulty variant of UrgentBranch: the crisis reply also restarts the
\* dialogue
UrgentBranchRestarts(S, H, user_id, message, analysis, t) ==
    [sessions |-> _update_session(S, user_id, "greeting", 0, t),
     history |-> _add_to_history(H, user_id, message, CrisisMessage, analysis),
     reply |-> CrisisMessage]

\* the `if distress["is_urgent"]` branch of get_reply
UrgentBranch(S, H, user_id, message, analysis, t) ==
    [sessions |-> S,
     history |-> _add_to_history(H, user_id, message, CrisisMessage, analysis),
     reply |-> CrisisMessage]

\* get_reply(user_id, message) run from start to end at time t on sessions
\* S and histories H.  inp holds the message and what the sentiment and the
\* emotion backend answer for it during this call.
get_reply(S, H, user_id, inp, t) ==
    LET swept == _cleanup_old_sessions(S, H, t)
        ready == IF swept.sessions[user_id].exists THEN swept
                 ELSE _initialize_session(swept.sessions, swept.history,
                                          user_id, t)
        state == ready.sessions[user_id].state
        analysis == AnalysisOf[inp]
        sentiment == analysis.sentiment
        emotion == analysis.emotion
        distress == analysis.distress
        handled == Dispatch(state, ready.sessions, user_id, sentiment,
                            emotion, t)
    IN  IF distress.is_urgent
        THEN UrgentBranch(ready.sessions, ready.history, user_id,
                          inp.message, analysis, t)
        ELSE IF handled.raised
        THEN [sessions |-> handled.sessions, history |-> ready.history,
              reply |-> FallbackMessage]
        ELSE [sessions |-> handled.sessions,
              history |-> _add_to_history(ready.history, user_id,
                              inp.message, handled.reply, analysis),
              reply |-> handled.reply]

\* get_reply called for one user at time 0 with each input of a list in
\* turn, starting from the new instance
RECURSIVE RunTurns(_, _)
RunTurns(user_id, inputs) ==
    IF Len(inputs) = 0
    THEN [sessions |-> [u \in Users |-> NoSession],
          history |-> [u \in Users |-> NoHistory]]
    ELSE LET before == RunTurns(user_id, SubSeq(inputs, 1, Len(inputs) - 1))
             r == get_reply(before.sessions, before.history, user_id,
                            inputs[Len(inputs)], 0)
         IN  [sessions |-> r.sessions, history |-> r.history]

\* get_conversation_history(user_id, limit)
get_conversation_history(H, user_id, limit) ==
    IF ~H[user_id].exists THEN << >>
    ELSE LET turns == H[user_id].turns
         IN  IF limit # 0
             THEN SubSeq(turns,
                         IF limit > 0
                         THEN (IF Len(turns) - limit + 1 > 1
                               THEN Len(turns) - limit + 1 ELSE 1)
                         ELSE (IF 1 - limit <= Len(turns)
                               THEN 1 - limit ELSE Len(turns) + 1),
                         Len(turns))
             ELSE turns

\* a faulty variant of reset_session: the history is kept
ResetKeepsHistory(S, H, user_id) ==
    [sessions |-> [S EXCEPT ![user_id] = NoSession], history |-> H]

\* reset_session(user_id)
reset_session(S, H, user_id) ==
    [sessions |-> [S EXCEPT ![user_id] = NoSession],
     history |-> [H EXCEPT ![user_id] = NoHistory]]

\* how long each user's history may grow
HistCap == [u \in Users |-> IF u = "u1" THEN MaxHist ELSE 1]

HistoryLimits == {0, 1}

\* what is seen of a call: the operation, its arguments, its reply, and
\* the users whose sessions it removed (by its sweep, or by the reset)
NoCall ==
    [op |-> "none", user |-> "", input |-> PlainTurn, reply |-> "",
     swept |-> {}]
Call(op, user, input, reply, swept) ==
    [op |-> op, user |-> user, input |-> input, reply |-> reply,
     swept |-> swept]

Never == -1

ChatIdle ==
    /\ sessions = [u \in Users |-> NoSession]
    /\ conversation_history = [u \in Users |-> NoHistory]
    /\ now = 0
    /\ last = NoCall
    /\ last_call = [u \in Users |-> Never]

\* the state after MentalHealthChatbot()
ChatInit == ChatIdle

HistoryLen(H, u) == IF H[u].exists THEN Len(H[u].turns) ELSE 0

\* what no call of the serial chatbot changes
ChatFrame == UNCHANGED <<detectVars, riskVars, threads, c_start, apiVars>>

\* chatbot.get_reply(u, inp.message), run to its end
GetReply(u, inp) ==
    /\ HistoryLen(conversation_history, u) < HistCap[u]
    /\ LET r == get_reply(sessions, conversation_history, u, inp, now)
       IN  /\ sessions' = r.sessions
           /\ conversation_history' = r.history
           /\ last' = Call("get_reply", u, inp, r.reply,
                            Expired(sessions, now))
    /\ last_call' = [v \in Users |->
                        IF v = u THEN now
                        ELSE IF v \in Expired(sessions, now) THEN Never
                        ELSE last_call[v]]
    /\ UNCHANGED now
    /\ ChatFrame

\* the dialogues after which the transition table is walked: up to
\* MaxPrefix turns of u1, each with or without negative sentiment
TablePrefixes ==
    UNION {[1..n -> {PlainTurn, LowTurn}] : n \in 0..MaxPrefix}

\* the instance after one of these dialogues
TableInit ==
    /\ \E prefix \in TablePrefixes :
          /\ sessions = RunTurns("u1", prefix).sessions
          /\ conversation_history = RunTurns("u1", prefix).history
          /\ last_call = [u \in Users |->
                             IF u = "u1" /\ Len(prefix) > 0 THEN 0 ELSE Never]
    /\ now = 0
    /\ last = NoCall

\* one more turn of u1, with any answer of the backends
TableTurn(inp) ==
    /\ last.op = "none"
    /\ GetReply("u1", inp)

\* chatbot.get_conversation_history(u, limit); the list it returns is
\* get_conversation_history(conversation_history, u, limit)
GetHistory(u, limit) ==
    /\ Len(get_conversation_history(conversation_history, u, limit)) >= 0
    /\ last' = Call("get_conversation_history", u, PlainTurn, "", {})
    /\ UNCHANGED <<sessions, conversation_history, now, last_call>>
    /\ ChatFrame

\* chatbot.reset_session(u)
ResetSession(u) ==
    /\ LET r == reset_session(sessions, conversation_history, u)
       IN  /\ sessions' = r.sessions
           /\ conversation_history' = r.history
    /\ last' = Call("reset_session", u, PlainTurn, "",
                    IF sessions[u].exists THEN {u} ELSE {})
    /\ last_call' = [last_call EXCEPT ![u] = Never]
    /\ UNCHANGED now
    /\ ChatFrame

\* time passes between two calls
Tick ==
    /\ \E d \in TickSteps : now + d <= MaxTicks * d /\ now' = now + d
    /\ last' = NoCall
    /\ UNCHANGED <<sessions, conversation_history, last_call>>
    /\ ChatFrame

(***************************************************************************)
(* app/routes, app/exceptions.py, app/main.py: the HTTP routes.  Every     *)
(* route runs its body inside try/except; an exception raised in the body  *)
(* passes through the route's except clauses, and the exception that       *)
(* leaves the route is answered by the handler registered for it.  The     *)
(* caller is authenticated (current_user is the caller's username) and the *)
(* database is connected.                                                  *)
(***************************************************************************)
Exc(name, status_code) == [name |-> name, status_code |-> status_code]

UnauthorizedAccessError == Exc("UnauthorizedAccessError", 0)
DatabaseConnectionError == Exc("DatabaseConnectionError", 0)
HTTPException(status_code) == Exc("HTTPException", status_code)
KeyError == Exc("KeyError", 0)
UnboundLocalError == Exc("UnboundLocalError", 0)

\* the except clauses that close a route body:
\*   except (ConnectionFailure, ServerSelectionTimeoutError): raise DatabaseConnectionError
\*   except Exception as e: raise HTTPException(status_code=500, ...)
RouteExcept(exc) ==
    IF exc.name \in {"ConnectionFailure", "ServerSelectionTimeoutError"}
    THEN DatabaseConnectionError
    ELSE HTTPException(500)

\* app.add_exception_handler(...): the status the application answers an
\* exception that leaves a route with
StatusOf(exc) ==
    CASE exc.name = "HTTPException" -> exc.status_code
      [] exc.name = "UnauthorizedAccessError" -> 403
      [] exc.name = "DatabaseConnectionError" -> 503
      [] exc.name = "DuplicateKeyError" -> 400
      [] OTHER -> 500

NoBody == [detail |-> "error"]
NoMessage == [message |-> ""]
NoRequest ==
    [route |-> "none", current_user |-> "", user_id |-> "", status |-> 0,
     body |-> NoBody, request |-> NoMessage]

\* a response together with the body of the request it answers
Answer(resp, request) ==
    [route |-> resp.route, current_user |-> resp.current_user,
     user_id |-> resp.user_id, status |-> resp.status, body |-> resp.body,
     request |-> request]

\* the response to a request whose route body raised exc
Failed(route, current_user, user_id, exc) ==
    [route |-> route, current_user |-> current_user, user_id |-> user_id,
     status |-> StatusOf(RouteExcept(exc)), body |-> NoBody]

\* the response to a request whose route body returned
Returned(route, current_user, user_id, body) ==
    [route |-> route, current_user |-> current_user, user_id |-> user_id,
     status |-> 200, body |-> body]

\* routes/nlp.py chatbot_interaction: POST /nlp/chatbot.  An Optional value
\* is a list of no or one element.
chatbot_interaction(S, H, current_user, user_id, inp, t) ==
    IF user_id # current_user
    THEN [sessions |-> S, history |-> H,
          response |-> Failed("chatbot_interaction", current_user, user_id,
                              UnauthorizedAccessError)]
    ELSE LET r == get_reply(S, H, user_id, inp, t)
             history == get_conversation_history(r.history, user_id, 1)
             analysis == IF Len(history) > 0 THEN << history[1].analysis >>
                         ELSE << >>
         IN  [sessions |-> r.sessions, history |-> r.history,
              response |-> Returned("chatbot_interaction", current_user,
                                    user_id,
                                    [reply |-> r.reply,
                                     analysis |-> analysis])]

\* routes/nlp.py get_conversation_history: GET /nlp/chatbot/history/{user_id}
conversation_history_route(H, current_user, user_id, limit) ==
    IF user_id # current_user
    THEN Failed("get_conversation_history", current_user, user_id,
                UnauthorizedAccessError)
    ELSE LET history == get_conversation_history(H, user_id, limit)
         IN  Returned("get_conversation_history", current_user, user_id,
                      [conversations |-> history,
                       total_count |-> Len(history),
                       latest_analysis |->
                          IF Len(history) > 0
                          THEN << history[Len(history)].analysis >>
                          ELSE << >>])

\* routes/nlp.py reset_chatbot_session: POST /nlp/chatbot/reset/{user_id}
reset_chatbot_session(S, H, current_user, user_id) ==
    IF user_id # current_user
    THEN [sessions |-> S, history |-> H,
          response |-> Failed("reset_chatbot_session", current_user, user_id,
                              UnauthorizedAccessError)]
    ELSE LET r == reset_session(S, H, user_id)
         IN  [sessions |-> r.sessions, history |-> r.history,
              response |-> Returned("reset_chatbot_session", current_user,
                                    user_id, [user_id |-> user_id])]

\* routes/moods.py log_mood: POST /moods/
log_mood(M, current_user, user_id, mood) ==
    IF user_id # current_user
    THEN [moods |-> M,
          response |-> Failed("log_mood", current_user, user_id,
                              UnauthorizedAccessError)]
    ELSE [moods |-> Append(M, [user_id |-> user_id, mood |-> mood]),
          response |-> Returned("log_mood", current_user, user_id,
                                [data |-> [user_id |-> user_id,
                                           mood |-> mood]])]

\* moods_collection.find({"user_id": user_id})
MoodsOf(M, user_id) == SelectSeq(M, LAMBDA doc : doc.user_id = user_id)

\* routes/moods.py get_mood_history: GET /moods/{user_id}
get_mood_history(M, current_user, user_id) ==
    IF user_id # current_user
    THEN Failed("get_mood_history", current_user, user_id,
                HTTPException(403))
    ELSE Returned("get_mood_history", current_user, user_id,
                  [history |-> MoodsOf(M, user_id),
                   count |-> Len(MoodsOf(M, user_id))])

NoDoc == [exists |-> FALSE]

\* the collections and the request log before the first request
ApiIdle ==
    /\ moods_collection = << >>
    /\ streaks_collection = [u \in Users |-> NoDoc]
    /\ api_response = NoRequest

ApiInputs == {PlainTurn, KeywordTurn, MalformedTurn}
ApiLimits == {1, 10}
Moods == {"happy"}

\* what no request to a chatbot or mood route changes
ApiFrame ==
    UNCHANGED <<detectVars, riskVars, concVars, now, last, last_call,
                streaks_collection>>

\* the turns recorded for all users together
TurnsStored(H) == HistoryLen(H, "u1") + HistoryLen(H, "u2")

ChatbotInteraction(current_user, user_id, inp) ==
    /\ TurnsStored(conversation_history) < MaxApiTurns
    /\ LET r == chatbot_interaction(sessions, conversation_history,
                                    current_user, user_id, inp, now)
       IN  /\ sessions' = r.sessions
           /\ conversation_history' = r.history
           /\ api_response' = Answer(r.response, inp)
    /\ UNCHANGED moods_collection
    /\ ApiFrame

ConversationHistoryRoute(current_user, user_id, limit) ==
    /\ api_response' =
          Answer(conversation_history_route(conversation_history,
                                            current_user, user_id, limit),
                 NoMessage)
    /\ UNCHANGED <<sessions, conversation_history, moods_collection>>
    /\ ApiFrame

ResetChatbotSession(current_user, user_id) ==
    /\ LET r == reset_chatbot_session(sessions, conversation_history,
                                      current_user, user_id)
       IN  /\ sessions' = r.sessions
           /\ conversation_history' = r.history
           /\ api_response' = Answer(r.response, NoMessage)
    /\ UNCHANGED moods_collection
    /\ ApiFrame

LogMood(current_user, user_id, mood) ==
    /\ Len(moods_collection) < MaxMoods
    /\ LET r == log_mood(moods_collection, current_user, user_id, mood)
       IN  /\ moods_collection' = r.moods
           /\ api_response' = Answer(r.response, NoMessage)
    /\ UNCHANGED <<sessions, conversation_history>>
    /\ ApiFrame

GetMoodHistory(current_user, user_id) ==
    /\ api_response' =
          Answer(get_mood_history(moods_collection, current_user, user_id),
                 NoMessage)
    /\ UNCHANGED <<sessions, conversation_history, moods_collection>>
    /\ ApiFrame

(***************************************************************************)
(* app/routes/gamify.py: streaks, XP, progress and achievements.  All its  *)
(* documents live in db["streaks"], which carries a unique index on        *)
(* user_id (database.py, create_indexes): the collection holds at most one *)
(* document per user.  A document is a record of the fields it has.        *)
(***************************************************************************)
DuplicateKeyError == Exc("DuplicateKeyError", 0)

StreakDoc(user_id, streak) ==
    [exists |-> TRUE, user_id |-> user_id, streak |-> streak]

ProgressDoc(user_id, xp, level, achievements) ==
    [exists |-> TRUE, user_id |-> user_id, type |-> "progress", xp |-> xp,
     level |-> level, achievements |-> achievements]

\* streaks_collection.find_one({"user_id": user_id})
FindByUser(C, user_id) == C[user_id]

\* streaks_collection.find_one({"user_id": user_id, "type": type})
FindByUserAndType(C, user_id, type) ==
    IF /\ C[user_id].exists
       /\ "type" \in DOMAIN C[user_id]
       /\ C[user_id].type = type
    THEN C[user_id]
    ELSE NoDoc

\* calculate_level(xp); xp // 200 floors
calculate_level(xp) ==
    IF xp < 100 THEN 1
    ELSE IF xp < 300 THEN 2
    ELSE IF xp < 600 THEN 3
    ELSE IF xp < 1000 THEN 4
    ELSE IF xp < 1500 THEN 5
    ELSE IF (xp \div 200) + 1 < 50 THEN (xp \div 200) + 1 ELSE 50

\* update_streak: POST /gamify/streak/{user_id}
update_streak(C, current_user, user_id) ==
    IF user_id # current_user
    THEN [streaks |-> C,
          response |-> Failed("update_streak", current_user, user_id,
                              UnauthorizedAccessError)]
    ELSE LET user_streak == FindByUser(C, user_id)
         IN  IF user_streak.exists
             THEN IF "streak" \notin DOMAIN user_streak
                  THEN [streaks |-> C,
                        response |-> Failed("update_streak", current_user,
                                            user_id, KeyError)]
                  ELSE LET new_streak == user_streak.streak + 1
                       IN  [streaks |->
                               [C EXCEPT ![user_id].streak = new_streak],
                            response |->
                               Returned("update_streak", current_user,
                                        user_id,
                                        [user_id |-> user_id,
                                         streak |-> new_streak])]
             ELSE [streaks |-> [C EXCEPT ![user_id] = StreakDoc(user_id, 1)],
                   response |->
                      Returned("update_streak", current_user, user_id,
                               [user_id |-> user_id, streak |-> 1])]

\* get_streak: GET /gamify/streak/{user_id}; the document found is the body
get_streak(C, current_user, user_id) ==
    IF user_id # current_user
    THEN Failed("get_streak", current_user, user_id, UnauthorizedAccessError)
    ELSE LET user_streak == FindByUser(C, user_id)
         IN  IF ~user_streak.exists
             THEN Returned("get_streak", current_user, user_id,
                           [user_id |-> user_id, streak |-> 0])
             ELSE Returned("get_streak", current_user, user_id, user_streak)

\* add_xp: POST /gamify/xp/add/{user_id}.  The branch that creates the
\* record binds neither new_xp nor new_level, which the return statement
\* reads when progress is None.
add_xp(C, current_user, user_id, xp_amount) ==
    IF user_id # current_user
    THEN [streaks |-> C,
          response |-> Failed("add_xp", current_user, user_id,
                              UnauthorizedAccessError)]
    ELSE LET progress == FindByUserAndType(C, user_id, "progress")
         IN  IF ~progress.exists
             THEN IF C[user_id].exists
                  THEN [streaks |-> C,
                        response |-> Failed("add_xp", current_user, user_id,
                                            DuplicateKeyError)]
                  ELSE [streaks |->
                           [C EXCEPT ![user_id] =
                               ProgressDoc(user_id, xp_amount, 1, << >>)],
                        response |-> Failed("add_xp", current_user, user_id,
                                            UnboundLocalError)]
             ELSE LET new_xp == progress.xp + xp_amount
                      new_level == calculate_level(new_xp)
                  IN  [streaks |->
                          [C EXCEPT ![user_id].xp = new_xp,
                                    ![user_id].level = new_level],
                       response |->
                          Returned("add_xp", current_user, user_id,
                                   [user_id |-> user_id,
                                    xp_added |-> xp_amount,
                                    total_xp |-> progress.xp + xp_amount,
                                    level |-> calculate_level(
                                                 progress.xp + xp_amount)])]

\* get_user_progress: GET /gamify/progress/{user_id}
get_user_progress(C, current_user, user_id) ==
    IF user_id # current_user
    THEN Failed("get_user_progress", current_user, user_id,
                UnauthorizedAccessError)
    ELSE LET progress == FindByUserAndType(C, user_id, "progress")
         IN  IF ~progress.exists
             THEN Returned("get_user_progress", current_user, user_id,
                           [user_id |-> user_id, xp |-> 0, level |-> 1,
                            achievements |-> << >>])
             ELSE Returned("get_user_progress", current_user, user_id,
                           [user_id |-> user_id, xp |-> progress.xp,
                            level |-> progress.level,
                            achievements |-> progress.achievements])

\* ACHIEVEMENTS, in the order of the dictionary, with the XP rewards
AchievementIds ==
    << "first_steps", "week_warrior", "mood_detective", "ai_friend",
       "reflection_pro", "comeback_kid" >>
XpReward ==
    [first_steps |-> 50, week_warrior |-> 100, mood_detective |-> 75,
     ai_friend |-> 30, reflection_pro |-> 80, comeback_kid |-> 60]
DailyStreakRequired == 7

\* check_achievement_requirement(user_id, ACHIEVEMENTS[id]["requirement"])
check_achievement_requirement(C, M, user_id, id) ==
    IF id = "first_steps"
    THEN Len(MoodsOf(M, user_id)) >= 1
    ELSE IF id = "week_warrior"
    THEN LET streak_data == FindByUserAndType(C, user_id, "streak")
         IN  streak_data.exists /\ streak_data.streak >= DailyStreakRequired
    ELSE FALSE

\* the loop of check_achievements over the first n achievements: the
\* collection and the lists it leaves
RECURSIVE CheckLoop(_, _, _, _, _)
CheckLoop(C, M, current_user, user_id, n) ==
    IF n = 0
    THEN [streaks |-> C,
          earned |-> FindByUserAndType(C, user_id, "progress").achievements,
          new |-> << >>]
    ELSE LET before == CheckLoop(C, M, current_user, user_id, n - 1)
             id == AchievementIds[n]
         IN  IF \E i \in 1..Len(before.earned) : before.earned[i] = id
             THEN before
             ELSE IF check_achievement_requirement(before.streaks, M,
                                                   user_id, id)
             THEN [streaks |-> add_xp(before.streaks, current_user, user_id,
                                      XpReward[id]).streaks,
                   earned |-> Append(before.earned, id),
                   new |-> Append(before.new, id)]
             ELSE before

\* check_achievements: POST /gamify/achievements/check/{user_id}
check_achievements(C, M, current_user, user_id) ==
    IF user_id # current_user
    THEN [streaks |-> C,
          response |-> Failed("check_achievements", current_user, user_id,
                              UnauthorizedAccessError)]
    ELSE IF ~FindByUserAndType(C, user_id, "progress").exists
    THEN [streaks |-> C,
          response |-> Returned("check_achievements", current_user, user_id,
                                [new_achievements |-> << >>])]
    ELSE LET done == CheckLoop(C, M, current_user, user_id,
                               Len(AchievementIds))
         IN  [streaks |->
                 IF Len(done.new) > 0
                 THEN [done.streaks EXCEPT
                          ![user_id].achievements = done.earned]
                 ELSE done.streaks,
              response |->
                 Returned("check_achievements", current_user, user_id,
                          [new_achievements |-> done.new,
                           total_achievements |-> Len(done.earned)])]

XpAmounts == {0, 25, 150}
GamifyUsers == {"u1"}

\* the XP a user's progress record holds; 0 without a record
StoredXp(C, user_id) ==
    IF FindByUserAndType(C, user_id, "progress").exists
    THEN C[user_id].xp ELSE 0

\* what no request to a gamification route changes
GamifyFrame ==
    UNCHANGED <<detectVars, riskVars, concVars, chatVars, moods_collection>>

UpdateStreak(user_id) ==
    /\ ~(FindByUser(streaks_collection, user_id).exists
         /\ "streak" \in DOMAIN streaks_collection[user_id]
         /\ streaks_collection[user_id].streak >= MaxStreak)
    /\ LET r == update_streak(streaks_collection, user_id, user_id)
       IN  /\ streaks_collection' = r.streaks
           /\ api_response' = Answer(r.response, NoMessage)
    /\ GamifyFrame

GetStreak(user_id) ==
    /\ api_response' =
          Answer(get_streak(streaks_collection, user_id, user_id), NoMessage)
    /\ UNCHANGED streaks_collection
    /\ GamifyFrame

AddXp(user_id, xp_amount) ==
    /\ StoredXp(streaks_collection, user_id) + xp_amount <= MaxXp
    /\ LET r == add_xp(streaks_collection, user_id, user_id, xp_amount)
       IN  /\ streaks_collection' = r.streaks
           /\ api_response' =
                 Answer(r.response, [xp_amount |-> xp_amount])
    /\ GamifyFrame

GetUserProgress(user_id) ==
    /\ api_response' =
          Answer(get_user_progress(streaks_collection, user_id, user_id),
                 NoMessage)
    /\ UNCHANGED streaks_collection
    /\ GamifyFrame

CheckAchievements(user_id) ==
    /\ LET r == check_achievements(streaks_collection, moods_collection,
                                   user_id, user_id)
       IN  /\ streaks_collection' = r.streaks
           /\ api_response' = Answer(r.response, NoMessage)
    /\ GamifyFrame

(***************************************************************************)
(* Claims about the dialogue turns.  A step whose last'.op is "get_reply"  *)
(* is one whole get_reply call of last'.user with input last'.input.       *)
(***************************************************************************)
\* this step is a get_reply call of user u
IsTurn(u) == last'.op = "get_reply" /\ last'.user = u

\* this step is a turn of u whose message analyze_distress finds urgent
IsCrisisTurn(u) == IsTurn(u) /\ AnalysisOf[last'.input].distress.is_urgent

\* u's session is live at the start of this step: it exists and the sweep
\* of a call made now would leave it in place
LiveSession(u) == sessions[u].exists /\ u \notin Expired(sessions, now)

StateAndStepKept(u) ==
    /\ sessions'[u].exists
    /\ sessions'[u].state = sessions[u].state
    /\ sessions'[u].step = sessions[u].step

FreshAtGreeting(u) ==
    /\ sessions'[u].exists
    /\ sessions'[u].state = "greeting"
    /\ sessions'[u].step = 0

\* C1 as stated: on a turn whose message is urgent the reply is the crisis
\* message, and the user's state and step after the turn are those before
\* it; for a user without a session the new session stays at greeting / 0.
C1_CrisisKeepsStateAlways ==
    [][\A u \in Users :
          IsCrisisTurn(u) =>
              /\ last'.reply = CrisisMessage
              /\ IF sessions[u].exists THEN StateAndStepKept(u)
                 ELSE FreshAtGreeting(u)]_vars

\* C1, amended: on a turn whose message is urgent the reply is the crisis
\* message; the state and step of a session that is live at the start of
\* the turn are unchanged by it; a user without a session, or whose session
\* the sweep of this call removes as expired, ends the turn with a new
\* session at greeting / 0.
C1_CrisisPrecedence ==
    [][\A u \in Users :
          IsCrisisTurn(u) =>
              /\ last'.reply = CrisisMessage
              /\ IF LiveSession(u) THEN StateAndStepKept(u)
                 ELSE FreshAtGreeting(u)]_vars

\* a crisis reply was just given to a user who is well into the dialogue
C1_Witness ==
    /\ last.op = "get_reply"
    /\ last.reply = CrisisMessage
    /\ last.user \notin last.swept
    /\ sessions[last.user].step >= 2

\* u's session is destroyed in this step
Destroyed(u) ==
    /\ sessions[u].exists
    /\ \/ ~sessions'[u].exists
       \/ last'.op = "get_reply" /\ u \in last'.swept

\* C2: a session is destroyed only by reset_session for its user, or by
\* the sweep of a get_reply call made more than 24 hours after the user's
\* latest get_reply call.
C2_DestroyedOnlyWhenIdle ==
    [][\A u \in Users :
          Destroyed(u) =>
              \/ last'.op = "reset_session" /\ last'.user = u
              \/ /\ last'.op = "get_reply"
                 /\ last_call[u] # Never
                 /\ now - last_call[u] > SESSION_TTL_HOURS]_vars

\* the only turn recorded for u after this step is the one just made
OnlyTheNewTurn(u) ==
    /\ conversation_history'[u].exists
    /\ LET turns == conversation_history'[u].turns
       IN  IF last'.reply = FallbackMessage THEN turns = << >>
           ELSE /\ Len(turns) = 1
                /\ turns[1].user_message = last'.input.message
                /\ turns[1].bot_response = last'.reply

\* the turn of this step was handled as the first turn of a new session
HandledFromGreeting(u) ==
    /\ sessions'[u].exists
    /\ sessions'[u].last_activity = now
    /\ IF last'.reply = CrisisMessage
       THEN sessions'[u].state = "greeting" /\ sessions'[u].step = 0
       ELSE sessions'[u].state = "checking_in" /\ sessions'[u].step = 1
    /\ last'.reply \in {CrisisMessage, FallbackMessage, GreetingReply,
                        GreetingNegativeReply}

\* C3: a get_reply call removes, before it looks its caller up, the session
\* and the history of every user whose last_activity is more than 24 hours
\* old; a caller whose own session had expired is handled from greeting in
\* a new session, and the history holds the new turn and nothing older.
C3_SweepBeforeLookup ==
    [][\A v \in Users :
          IsTurn(v) =>
              \A u \in Users :
                  (/\ sessions[u].exists
                   /\ now - sessions[u].last_activity > SESSION_TTL_HOURS)
                  => IF u = v
                     THEN HandledFromGreeting(u) /\ OnlyTheNewTurn(u)
                     ELSE /\ ~sessions'[u].exists
                          /\ ~conversation_history'[u].exists]_vars

\* a turn has just swept the caller's own expired session and another
\* user's, and the caller's history holds the new turn alone
C3_Witness ==
    /\ last.op = "get_reply"
    /\ last.swept = Users
    /\ sessions[last.user].exists
    /\ conversation_history[last.user].exists
    /\ Len(conversation_history[last.user].turns) = 1
    /\ \A u \in Users \ {last.user} : ~sessions[u].exists

\* C5: a turn answered with the fallback message leaves the user's state,
\* step and history as they were (a user without a session is left with a
\* new session at greeting / 0 and an empty history).
C5_FailedTurnChangesNothing ==
    [][\A u \in Users :
          (IsTurn(u) /\ last'.reply = FallbackMessage) =>
              IF LiveSession(u)
              THEN /\ StateAndStepKept(u)
                   /\ conversation_history'[u] = conversation_history[u]
              ELSE /\ FreshAtGreeting(u)
                   /\ conversation_history'[u] = HistoryOf(<< >>)]_vars

(***************************************************************************)
(* get_reply called from several threads.  MentalHealthChatbot holds no    *)
(* lock, so a thread may be switched out between any two statements of    *)
(* get_reply; a call is split at each place where it reads or writes       *)
(* self.sessions or self.conversation_history.                             *)
(***************************************************************************)
Threads == {"t1", "t2"}

IdleThread ==
    [pc |-> "idle", user |-> "", input |-> PlainTurn, state |-> "",
     reply |-> ""]

ConcIdle ==
    /\ threads = [th \in Threads |-> IdleThread]
    /\ c_start = [sessions |-> [u \in Users |-> NoSession],
                  history |-> [u \in Users |-> NoHistory]]

\* the instance before any call, and after one call of u1 made at time 0
ConcStarts ==
    LET empty == [sessions |-> [u \in Users |-> NoSession],
                  history |-> [u \in Users |-> NoHistory]]
    IN  {empty} \cup
        {[sessions |-> get_reply(empty.sessions, empty.history, "u1", inp, 0).sessions,
          history |-> get_reply(empty.sessions, empty.history, "u1", inp, 0).history] :
            inp \in TurnInputs["u1"]}

\* when the threads run: at once, or after the sessions have expired
ConcTimes == {0, 32}

ConcInputs == {PlainTurn, KeywordTurn}

ConcInit ==
    /\ \E start \in ConcStarts :
          /\ c_start = start
          /\ sessions = start.sessions
          /\ conversation_history = start.history
    /\ now \in ConcTimes
    /\ last = NoCall
    /\ last_call = [u \in Users |-> Never]
    /\ threads = [th \in Threads |-> IdleThread]

\* what no step of a thread changes
ConcFrame ==
    UNCHANGED <<detectVars, riskVars, now, last, last_call, c_start, apiVars>>

\* a thread calls get_reply(u, inp.message)
Enter(th, u, inp) ==
    /\ threads[th].pc = "idle"
    /\ threads' = [threads EXCEPT ![th].pc = "cleanup", ![th].user = u,
                                 ![th].input = inp]
    /\ UNCHANGED <<sessions, conversation_history>>
    /\ ConcFrame

\* line 66: self._cleanup_old_sessions()
Cleanup(th) ==
    /\ threads[th].pc = "cleanup"
    /\ LET r == _cleanup_old_sessions(sessions, conversation_history, now)
       IN  /\ sessions' = r.sessions
           /\ conversation_history' = r.history
    /\ threads' = [threads EXCEPT ![th].pc = "lookup"]
    /\ ConcFrame

\* line 69: if user_id not in self.sessions
Lookup(th) ==
    /\ threads[th].pc = "lookup"
    /\ threads' = [threads EXCEPT ![th].pc =
                      IF sessions[threads[th].user].exists THEN "read"
                      ELSE "init"]
    /\ UNCHANGED <<sessions, conversation_history>>
    /\ ConcFrame

\* line 70: self._initialize_session(user_id)
InitSession(th) ==
    /\ threads[th].pc = "init"
    /\ LET r == _initialize_session(sessions, conversation_history,
                                    threads[th].user, now)
       IN  /\ sessions' = r.sessions
           /\ conversation_history' = r.history
    /\ threads' = [threads EXCEPT ![th].pc = "read"]
    /\ ConcFrame

\* lines 72-79: the state is read into a local, then the message is
\* analysed; a session that is gone raises KeyError
ReadState(th) ==
    /\ threads[th].pc = "read"
    /\ threads' =
          IF sessions[threads[th].user].exists
          THEN [threads EXCEPT ![th].pc = "respond",
                               ![th].state = sessions[threads[th].user].state]
          ELSE [threads EXCEPT ![th].pc = "done",
                               ![th].reply = FallbackMessage]
    /\ UNCHANGED <<sessions, conversation_history>>
    /\ ConcFrame

\* lines 82-103: the crisis reply, or the handler of the state read before
Respond(th) ==
    /\ threads[th].pc = "respond"
    /\ LET t == threads[th]
           analysis == AnalysisOf[t.input]
           handled == Dispatch(t.state, sessions, t.user, analysis.sentiment,
                               analysis.emotion, now)
       IN  IF analysis.distress.is_urgent
           THEN /\ threads' = [threads EXCEPT ![th].pc = "record",
                                             ![th].reply = CrisisMessage]
                /\ UNCHANGED sessions
           ELSE /\ sessions' = handled.sessions
                /\ threads' =
                      IF handled.raised
                      THEN [threads EXCEPT ![th].pc = "done",
                                           ![th].reply = FallbackMessage]
                      ELSE [threads EXCEPT ![th].pc = "record",
                                           ![th].reply = handled.reply]
    /\ UNCHANGED conversation_history
    /\ ConcFrame

\* lines 84 and 106: self._add_to_history(...), then return
Record(th) ==
    /\ threads[th].pc = "record"
    /\ conversation_history' =
          _add_to_history(conversation_history, threads[th].user,
                          threads[th].input.message, threads[th].reply,
                          AnalysisOf[threads[th].input])
    /\ threads' = [threads EXCEPT ![th].pc = "done"]
    /\ UNCHANGED sessions
    /\ ConcFrame

\* a thread calls reset_session(u) and returns
ConcReset(th, u) ==
    /\ threads[th].pc = "idle"
    /\ LET r == reset_session(sessions, conversation_history, u)
       IN  /\ sessions' = r.sessions
           /\ conversation_history' = r.history
    /\ threads' = [threads EXCEPT ![th].pc = "done", ![th].user = u]
    /\ ConcFrame

\* a thread whose call has returned is free for the next call (as long as
\* fewer than MaxOverlapTurns turns of its user are recorded)
Return(th) ==
    /\ threads[th].pc = "done"
    /\ HistoryLen(conversation_history, threads[th].user) < MaxOverlapTurns
    /\ threads' = [threads EXCEPT ![th] = IdleThread]
    /\ UNCHANGED <<sessions, conversation_history>>
    /\ ConcFrame

\* who calls, and with what, when calls follow and overlap one another
OverlapUsers == {"u1"}
OverlapInputs == {PlainTurn}

\* what one user's session and history are after two calls made one after
\* the other
SerialOutcome(u, first, second) ==
    LET a == get_reply(c_start.sessions, c_start.history, u, first, now)
        b == get_reply(a.sessions, a.history, u, second, now)
    IN  [state |-> b.sessions[u].state, step |-> b.sessions[u].step,
         history |-> b.history[u]]

BothReturned == \A th \in Threads : threads[th].pc = "done"

\* C4: when two overlapping get_reply calls of one user have returned, the
\* user's state, step and history are those of the two calls made one after
\* the other, in one order or the other.
C4_SameUserTurnsSerialized ==
    (BothReturned /\ threads["t1"].user = threads["t2"].user) =>
        LET u == threads["t1"].user
        IN  /\ sessions[u].exists
            /\ [state |-> sessions[u].state, step |-> sessions[u].step,
                history |-> conversation_history[u]]
               \in {SerialOutcome(u, threads["t1"].input, threads["t2"].input),
                    SerialOutcome(u, threads["t2"].input, threads["t1"].input)}

(***************************************************************************)
(* Claims about get_conversation_history and reset_session.                *)
(***************************************************************************)
\* the limits asked of get_conversation_history in the properties below
LimitsAsked == 0..(MaxHist + 1)

Min(a, b) == IF a < b THEN a ELSE b

\* the last k elements of a sequence, in their order
LastTurns(turns, k) == SubSeq(turns, Len(turns) - k + 1, Len(turns))

RecordedTurns(u) ==
    IF conversation_history[u].exists THEN conversation_history[u].turns
    ELSE << >>

\* C11: for every limit >= 0, get_conversation_history(u, limit) is the
\* last min(limit, n) of the user's n recorded turns, oldest first, never
\* more than limit turns, the empty list for a user without history; and
\* the call changes no session and no history.
C11_HistoryTruncatedToLimit ==
    /\ [](\A u \in Users : \A limit \in LimitsAsked :
             LET got == get_conversation_history(conversation_history, u, limit)
                 turns == RecordedTurns(u)
             IN  /\ got = LastTurns(turns, Min(limit, Len(turns)))
                 /\ Len(got) <= limit)
    /\ [][last'.op = "get_conversation_history" =>
             /\ sessions' = sessions
             /\ conversation_history' = conversation_history]_vars

\* this step is a reset_session call for user u
IsReset(u) == last'.op = "reset_session" /\ last'.user = u

\* C12: reset_session(u) leaves u without session and without history, so
\* that get_conversation_history(u, limit) is empty for every limit; for a
\* user who has neither, it changes nothing; and a get_reply call of a user
\* without a session is handled from greeting in a new session whose
\* history holds that turn alone.
C12_ResetIsImmediateAndIdempotent ==
    [][\A u \in Users :
          /\ IsReset(u) =>
                /\ ~sessions'[u].exists
                /\ ~conversation_history'[u].exists
                /\ \A limit \in LimitsAsked :
                      get_conversation_history(conversation_history', u, limit)
                          = << >>
                /\ (~sessions[u].exists /\ ~conversation_history[u].exists)
                      => /\ sessions' = sessions
                         /\ conversation_history' = conversation_history
          /\ (IsTurn(u) /\ ~sessions[u].exists) =>
                HandledFromGreeting(u) /\ OnlyTheNewTurn(u)]_vars

\* a user who had a session has just been reset, and the other user's
\* session is still there
C12_Witness ==
    /\ last.op = "reset_session"
    /\ last.swept = {last.user}
    /\ ~sessions[last.user].exists
    /\ ~conversation_history[last.user].exists
    /\ \E u \in Users \ {last.user} : sessions[u].exists

(***************************************************************************)
(* Claims about the dialogue state machine.                                *)
(***************************************************************************)
\* the state a turn of u starts from: that of the live session, greeting
\* for a user who gets a new session
PriorState(u) == IF LiveSession(u) THEN sessions[u].state ELSE "greeting"

\* the transition table
TableSuccessor(prior, sentiment_label, emotion_label) ==
    CASE prior = "greeting" -> "checking_in"
      [] prior = "checking_in" ->
            IF \/ StrLower(sentiment_label) \in {"negative", "neg"}
               \/ StrLower(emotion_label) \in {"sadness", "anger", "fear"}
            THEN "exploring_feelings" ELSE "providing_support"
      [] prior = "exploring_feelings" -> "providing_support"
      [] prior = "providing_support" -> "coping_strategies"
      [] prior = "coping_strategies" -> "coping_strategies"
      [] OTHER -> prior

TableEdges ==
    {<<"greeting", "checking_in">>, <<"checking_in", "exploring_feelings">>,
     <<"checking_in", "providing_support">>,
     <<"exploring_feelings", "providing_support">>,
     <<"providing_support", "coping_strategies">>}

\* this step is a turn of u that is neither urgent nor failed
IsPlainTurn(u) ==
    /\ IsTurn(u)
    /\ ~AnalysisOf[last'.input].distress.is_urgent
    /\ last'.reply # FallbackMessage

\* C13: a turn that is not urgent and does not fail moves the session to
\* the successor the table gives for the state the turn started from and
\* the labels of the turn; a turn changes the state along an edge of the
\* table or not at all; and the first such turn of a user without a live
\* session is answered with a reply of the greeting state.
C13_TransitionTable ==
    [][\A u \in Users :
          /\ IsPlainTurn(u) =>
                /\ sessions'[u].exists
                /\ sessions'[u].state =
                      TableSuccessor(PriorState(u),
                          AnalysisOf[last'.input].sentiment.label,
                          AnalysisOf[last'.input].emotion.label)
                /\ ~LiveSession(u) =>
                      last'.reply \in {GreetingReply, GreetingNegativeReply}
          /\ (IsTurn(u) /\ sessions'[u].state # PriorState(u)) =>
                <<PriorState(u), sessions'[u].state>> \in TableEdges]_vars

\* a turn with a positive sentiment and the emotion "Sadness" has just moved
\* a session from checking_in to exploring_feelings
C13_Witness ==
    /\ last.op = "get_reply"
    /\ last.input.raw_s = BackendSays("positive", 60)
    /\ last.input.raw_e = BackendSays("Sadness", 70)
    /\ sessions[last.user].state = "exploring_feelings"
    /\ Len(conversation_history[last.user].turns) = 2

\* this step is a call made for user a
IsCallOf(a) == last'.op # "none" /\ last'.user = a

\* C14: a get_reply, get_conversation_history or reset_session call for one
\* user leaves the session and the history of every other user as they
\* are, except that get_reply may delete both when the other user's
\* last_activity is more than 24 hours old.
C14_OtherUsersUntouched ==
    [][\A a \in Users : \A b \in Users \ {a} :
          IsCallOf(a) =>
              \/ /\ sessions'[b] = sessions[b]
                 /\ conversation_history'[b] = conversation_history[b]
              \/ /\ last'.op = "get_reply"
                 /\ sessions[b].exists
                 /\ now - sessions[b].last_activity > SESSION_TTL_HOURS
                 /\ ~sessions'[b].exists
                 /\ ~conversation_history'[b].exists]_vars

\* a turn of one user has just been recorded while another user, last
\* active some hours before, keeps a session and a recorded turn
C14_Witness ==
    /\ last.op = "get_reply"
    /\ last.reply # FallbackMessage
    /\ \E b \in Users \ {last.user} :
          /\ sessions[b].exists
          /\ sessions[b].last_activity < now
          /\ conversation_history[b].exists
          /\ Len(conversation_history[b].turns) = 1

\* the turns recorded for u after this step
RecordedTurnsAfter(u) ==
    IF conversation_history'[u].exists THEN conversation_history'[u].turns
    ELSE << >>

\* the turns this step's get_reply call of u finds recorded once its sweep
\* is done
TurnsFound(u) == IF LiveSession(u) THEN RecordedTurns(u) ELSE << >>

IsPrefixOf(p, q) == Len(p) <= Len(q) /\ SubSeq(q, 1, Len(p)) = p

\* C15: a get_reply call that returns a normal reply or the crisis reply
\* appends one turn to the end of the caller's history, holding the
\* message, the reply returned and the three analyses of the message; no
\* step changes or reorders recorded turns; and a step removes recorded
\* turns of a user only if it is a reset_session call for that user or a
\* get_reply call that finds the user's last_activity more than 24 hours old.
C15_HistoryAppendOnly ==
    [][\A u \in Users :
          /\ (IsTurn(u) /\ last'.reply # FallbackMessage) =>
                RecordedTurnsAfter(u) =
                    Append(TurnsFound(u),
                           [user_message |-> last'.input.message,
                            bot_response |-> last'.reply,
                            analysis |->
                               [sentiment |-> analyze_sentiment(last'.input.raw_s),
                                emotion |-> analyze_emotion(last'.input.raw_e),
                                distress |-> analyze_distress(last'.input.message,
                                                last'.input.raw_s,
                                                last'.input.raw_e)]])
          /\ \/ IsPrefixOf(RecordedTurns(u), RecordedTurnsAfter(u))
             \/ IsReset(u)
             \/ /\ last'.op = "get_reply"
                /\ sessions[u].exists
                /\ now - sessions[u].last_activity > SESSION_TTL_HOURS]_vars

\* a crisis reply has just been recorded as the third turn of a history
\* whose earlier turns were answered normally
C15_Witness ==
    /\ last.op = "get_reply"
    /\ last.reply = CrisisMessage
    /\ LET turns == RecordedTurns(last.user)
       IN  /\ Len(turns) = 3
           /\ turns[3].bot_response = CrisisMessage
           /\ turns[3].analysis.distress.is_urgent
           /\ turns[1].bot_response # CrisisMessage
           /\ turns[2].bot_response # CrisisMessage

\* C20: every result of analyze_distress, the one of its except branch
\* included, has a confidence in [0,1] (0..100 hundredths) and the
\* recommendation "Seek immediate help" when urgent, "Continue monitoring"
\* when not.
C20_ResultWellFormed ==
    d_result # NotRun =>
        /\ d_result.confidence \in 0..100
        /\ d_result.recommendation =
              IF d_result.is_urgent THEN "Seek immediate help"
              ELSE "Continue monitoring"

(***************************************************************************)
(* Claims relating analyze_distress and calculate_risk_score.              *)
(***************************************************************************)
\* C17: for every emotion label, the severe-emotion rule of analyze_distress
\* takes the label as severe exactly if calculate_risk_score counts the
\* label as severe: on a text without urgent keyword, with the sentiment
\* rule silent and the emotion score above the threshold, the result is
\* urgent iff the emotion risk of the history holding that one label is 1.
C17_SameSevereCheck ==
    ( /\ d_result # NotRun
      /\ ~HasKeyword(d_text)
      /\ WellFormed(d_raw_s) /\ WellFormed(d_raw_e)
      /\ ~RuleFiresOn(d_raw_s, NegativeLabels, SentimentUrgentThreshold)
      /\ ~ClassifierFailed(d_raw_e)
      /\ d_raw_e.score > distress_confidence_threshold ) =>
        \A thesaurus_up \in BOOLEAN :
            d_result.is_urgent
                = (EmotionRisk(<< d_raw_e.label >>, thesaurus_up) = << 1, 1 >>)

(***************************************************************************)
(* Claims about the ordering of risk results (checked under SpecRisk).     *)
(***************************************************************************)
IsNegativeLabel(l) == is_synonym_in_set(l, negative_ref, r_thesaurus)

\* the labels a sentiment label is replaced by
NegativeSubstitutes ==
    {l \in RiskSentimentLabels : IsNegativeLabel(l)}

\* the positions of the sentiment history that hold a non-negative label
NonNegativePositions ==
    {i \in 1..Len(r_sentiments) : ~IsNegativeLabel(r_sentiments[i])}

LevelRank(level) ==
    CASE level = "low" -> 1 [] level = "medium" -> 2 [] level = "high" -> 3
      [] OTHER -> 0

FracLeq(f, g) == f[1] * g[2] <= g[1] * f[2]

\* the result of the history in hand with the label at position i replaced
RescoredWith(i, l, tie_up) ==
    calculate_risk_score([r_sentiments EXCEPT ![i] = l], r_emotions,
                         r_thesaurus, tie_up)

\* C18: with the emotions and the number of sentiment labels fixed,
\* replacing one non-negative sentiment label by a negative one never
\* decreases the overall risk (neither the exact value nor the returned
\* risk_score) and never lowers the level (low < medium < high).
C18_MonotonicRisk ==
    r_result # NotRun =>
        LET before == OverallRisk(r_sentiments, r_emotions, r_thesaurus)
        IN  \A i \in NonNegativePositions, l \in NegativeSubstitutes :
              /\ FracLeq(before,
                         OverallRisk([r_sentiments EXCEPT ![i] = l],
                                     r_emotions, r_thesaurus))
              /\ \A tie_up \in BOOLEAN :
                    LET after == RescoredWith(i, l, tie_up)
                    IN  /\ after.risk_score >= r_result.risk_score
                        /\ LevelRank(after.level)
                              >= LevelRank(r_result.level)

\* C18 witness: a history has been scored low, and replacing one of its
\* non-negative sentiment labels by a negative one makes it high.
C18_Witness ==
    /\ r_result # NotRun
    /\ r_result.level = "low"
    /\ Truthy(r_emotions)
    /\ \E i \in NonNegativePositions, l \in NegativeSubstitutes :
          RescoredWith(i, l, TRUE).level = "high"

(***************************************************************************)
(* Claims about is_synonym_in_set (checked under SpecRisk, on the labels   *)
(* of the history in hand).                                                *)
(***************************************************************************)
LabelsInHand ==
    SeqToSet(r_sentiments)
        \cup (IF Truthy(r_emotions) THEN SeqToSet(r_emotions) ELSE {})

\* the categories probed: the two of calculate_risk_score, and the
\* one-member categories of the words that occur as labels
ProbedCategories ==
    {negative_ref, SeqToSet(severe_emotions)}
        \cup {{c} : c \in RiskSentimentLabels \cup RiskEmotionLabels
                              \cup {"fear", "fears", "negative"}}

\* the membership the claim describes: a literal match of the lower-cased
\* label, or a synonym of the lower-cased label in the category when the
\* thesaurus answers
IsMember(label, category, thesaurus_answers) ==
    \/ StrLower(label) \in category
    \/ /\ thesaurus_answers
       /\ WordNetLemmas(StrLower(label)) \cap category # {}

\* C19: is_synonym_in_set(label, category) is true iff the lower-cased
\* label is literally in the category or the WordNet synonyms of the
\* lower-cased label intersect it (the members of the category are never
\* expanded); when the look-up fails the answer is the literal match; and
\* the ratio returned for a one-label history says whether the label is a
\* member.
C19_IsMemberSemantics ==
    r_result # NotRun =>
        /\ \A l \in LabelsInHand, category \in ProbedCategories :
              /\ is_synonym_in_set(l, category, r_thesaurus)
                    = IsMember(l, category, r_thesaurus)
              /\ ~r_thesaurus =>
                    is_synonym_in_set(l, category, r_thesaurus)
                        = (StrLower(l) \in category)
        /\ Len(r_sentiments) = 1 =>
              (r_result.sentiment_risk = 100)
                  = IsMember(r_sentiments[1], negative_ref, r_thesaurus)
        /\ (Truthy(r_emotions) /\ Len(r_emotions) = 1) =>
              (r_result.emotion_risk = 100)
                  = IsMember(r_emotions[1], SeqToSet(severe_emotions),
                             r_thesaurus)

\* C19 witness: the one-label history "fears" has been scored with the
\* thesaurus answering and counted as severe through its synonym "fear",
\* while "fear" is not a member of the category {"fears"}.
C19_Witness ==
    /\ r_result # NotRun
    /\ r_emotions = << "fears" >>
    /\ r_thesaurus
    /\ r_result.emotion_risk = 100
    /\ is_synonym_in_set("fears", {"fear"}, r_thesaurus)
    /\ ~is_synonym_in_set("fear", {"fears"}, r_thesaurus)

\* C19, look-up failure: the one-label history "sorrow" has been scored
\* with the thesaurus failing, and is not counted as severe.
C19_DegradedSeen ==
    /\ r_result # NotRun
    /\ r_emotions = << "sorrow" >>
    /\ ~r_thesaurus
    /\ r_result.emotion_risk = 0

(***************************************************************************)
(* Claims about turns taken while the classification backend fails.        *)
(***************************************************************************)
\* this step is a turn of u during which every call of the sentiment and
\* of the emotion backend raises
IsBackendDownTurn(u) ==
    /\ IsTurn(u)
    /\ last'.input.raw_s = BackendFails
    /\ last'.input.raw_e = BackendFails

IsNeutralDefault(a) ==
    a.label = "neutral" /\ a.score = 50 /\ a.confidence = "low"

\* C21: when the backend raises, analyze_sentiment and analyze_emotion
\* return label "neutral", score 0.5, confidence "low"; a get_reply turn
\* taken meanwhile is not urgent when its message holds no urgent keyword,
\* is answered with a normal reply (neither the fallback message nor the
\* crisis reply), moves the session as the table says for neutral labels,
\* and appends one history entry holding the message and that reply.
C21_NeutralDefaultOnFailure ==
    [][\A u \in Users :
          IsBackendDownTurn(u) =>
              LET done == AnalysisOf[last'.input]
              IN  /\ IsNeutralDefault(analyze_sentiment(last'.input.raw_s))
                  /\ IsNeutralDefault(analyze_emotion(last'.input.raw_e))
                  /\ IsNeutralDefault(done.sentiment)
                  /\ IsNeutralDefault(done.emotion)
                  /\ ~HasKeyword(last'.input.message) =>
                        /\ ~done.distress.is_urgent
                        /\ last'.reply \notin {FallbackMessage, CrisisMessage}
                        /\ sessions'[u].exists
                        /\ sessions'[u].state =
                              TableSuccessor(PriorState(u), "neutral",
                                             "neutral")
                        /\ Len(RecordedTurnsAfter(u))
                              = Len(TurnsFound(u)) + 1
                        /\ LET entry == RecordedTurnsAfter(u)[
                                            Len(RecordedTurnsAfter(u))]
                           IN  /\ entry.user_message = last'.input.message
                               /\ entry.bot_response = last'.reply
                               /\ entry.analysis = done]_vars

\* C21 witness: a turn taken with both backends raising has just moved a
\* session from checking_in to providing_support and has been recorded as
\* the user's second turn.
C21_Witness ==
    /\ last.op = "get_reply"
    /\ last.input = TurnInput("hi", BackendFails, BackendFails)
    /\ last.reply = CheckingInOkayReply
    /\ sessions[last.user].state = "providing_support"
    /\ Len(conversation_history[last.user].turns) = 2

(***************************************************************************)
(* Claims about the states and steps of sessions.                          *)
(***************************************************************************)
DialogueStates ==
    {"greeting", "checking_in", "exploring_feelings", "providing_support",
     "coping_strategies"}

\* the steps a session may show in each state
StepsOf(state) ==
    CASE state = "greeting" -> {0}
      [] state = "checking_in" -> {1}
      [] state = "exploring_feelings" -> {2}
      [] state = "providing_support" -> {2, 3}
      [] state = "coping_strategies" -> {4}
      [] OTHER -> {}

\* this step runs _initialize_session for u (in a call run to its end, or
\* as the step of a thread)
StartsSession(u) ==
    \/ IsTurn(u) /\ ~LiveSession(u)
    \/ \E th \in Threads :
          /\ threads[th].pc = "init"
          /\ threads'[th].pc = "read"
          /\ threads[th].user = u

\* C25: every session is in one of the five dialogue states with a step
\* that fits the state, and while a session lives (no step deletes it or
\* starts it anew) its step never decreases.
C25_StepFollowsState ==
    /\ [](\A u \in Users :
             sessions[u].exists =>
                 /\ sessions[u].state \in DialogueStates
                 /\ sessions[u].step \in StepsOf(sessions[u].state))
    /\ [][\A u \in Users :
             (sessions[u].exists /\ sessions'[u].exists /\ ~StartsSession(u))
                 => sessions'[u].step >= sessions[u].step]_vars

\* C27: when no call is under way, a user has a history list exactly if
\* the user has a session.
C27_HistoryIffSession ==
    (\A th \in Threads : threads[th].pc \in {"idle", "done"}) =>
        \A u \in Users : conversation_history[u].exists = sessions[u].exists

\* every turn recorded for u was taken as a turn that is not urgent
AllCalm(u) ==
    \A i \in 1..Len(RecordedTurns(u)) :
        ~RecordedTurns(u)[i].analysis.distress.is_urgent

\* C26: a session whose turns so far were all neither urgent nor failed
\* (each is then recorded, none was reset or expired away) has left
\* greeting after the first turn and is at coping_strategies after four
\* turns, after three when the second turn led from checking_in straight
\* to providing_support; a further such turn at coping_strategies stays
\* there; and a session comes to greeting from another state only by being
\* started anew after a reset or an expiry.
C26_ReachesCoping ==
    /\ [](\A u \in Users :
             (sessions[u].exists /\ AllCalm(u)
                 /\ ~(last.user = u /\ last.reply = FallbackMessage)) =>
                 LET turns == RecordedTurns(u)
                 IN  /\ Len(turns) >= 1 => sessions[u].state # "greeting"
                     /\ Len(turns) >= 4 =>
                           sessions[u].state = "coping_strategies"
                     /\ (Len(turns) = 3
                           /\ turns[2].bot_response = CheckingInOkayReply) =>
                           sessions[u].state = "coping_strategies")
    /\ [][\A u \in Users :
             /\ (IsPlainTurn(u) /\ PriorState(u) = "coping_strategies") =>
                   /\ sessions'[u].exists
                   /\ sessions'[u].state = "coping_strategies"
             /\ ( /\ sessions[u].exists /\ sessions[u].state # "greeting"
                  /\ sessions'[u].exists /\ sessions'[u].state = "greeting" )
                   => StartsSession(u)]_vars

\* C26 witness: the fourth turn of a dialogue that went through
\* exploring_feelings has just brought the session to coping_strategies.
C26_Witness ==
    /\ last.op = "get_reply"
    /\ last.reply \notin {FallbackMessage, CrisisMessage}
    /\ sessions[last.user].exists
    /\ sessions[last.user].state = "coping_strategies"
    /\ AllCalm(last.user)
    /\ Len(RecordedTurns(last.user)) = 4
    /\ RecordedTurns(last.user)[2].bot_response = CheckingInNegativeReply

\* C26, the short way: the third turn of a dialogue that went from
\* checking_in straight to providing_support has reached coping_strategies,
\* and a fourth turn has left it there.
C26_StaysSeen ==
    /\ last.op = "get_reply"
    /\ last.reply = CopingReply
    /\ sessions[last.user].state = "coping_strategies"
    /\ AllCalm(last.user)
    /\ Len(RecordedTurns(last.user)) = 4
    /\ RecordedTurns(last.user)[2].bot_response = CheckingInOkayReply

\* the call of the emotion-risk route: calculate_risk_score([], emotions)
EmotionsAlone ==
    r_result # NotRun /\ Len(r_sentiments) = 0 /\ Truthy(r_emotions)

\* C28: when the risk is computed from a non-empty emotion history with
\* no sentiments, the overall value is half the emotion risk, so it is at
\* most 0.5 and the level is never high, even when every emotion of the
\* history is severe.
C28_EmotionsAloneHalved ==
    EmotionsAlone =>
        /\ OverallRisk(r_sentiments, r_emotions, r_thesaurus)
              = << SevereCount, 2 * Len(r_emotions) >>
        /\ IsRounded(r_result.risk_score, SevereCount, 2 * Len(r_emotions))
        /\ r_result.sentiment_risk = 0
        /\ r_result.risk_score <= 50
        /\ r_result.level # "high"
        /\ SevereCount = Len(r_emotions) =>
              /\ r_result.emotion_risk = 100
              /\ r_result.risk_score = 50
              /\ r_result.level = "medium"

\* C28 witness: a history of two severe emotions and no sentiments has
\* been scored 0.5, medium.
C28_Witness ==
    /\ EmotionsAlone
    /\ Len(r_emotions) = 2
    /\ SevereCount = 2
    /\ r_result.risk_score = 50
    /\ r_result.level = "medium"

(***************************************************************************)
(* Claims about the HTTP routes of the chatbot and of the moods.           *)
(***************************************************************************)
\* the step answers a request that names a user other than the caller
NamesAnotherUser ==
    /\ api_response'.route # "none"
    /\ api_response'.user_id # api_response'.current_user

\* a request that names another user reads and changes nothing: the stored
\* sessions, histories and moods stay as they were and the response carries
\* no data
OthersDataUntouched ==
    [][NamesAnotherUser =>
          /\ UNCHANGED <<sessions, conversation_history, moods_collection,
                         streaks_collection>>
          /\ api_response'.body = NoBody]_vars

\* C22: a request that names a user other than the authenticated caller is
\* answered with HTTP 403, and it neither reads nor changes the data of the
\* user it names.
C22_OthersForbidden ==
    [][NamesAnotherUser =>
          /\ api_response'.status = 403
          /\ UNCHANGED <<sessions, conversation_history, moods_collection,
                         streaks_collection>>
          /\ api_response'.body = NoBody]_vars

\* the step is a call of the chatbot route for u that returned
IsChatbotAnswer(u) ==
    /\ api_response'.route = "chatbot_interaction"
    /\ api_response'.user_id = u
    /\ api_response'.status = 200

\* the step recorded a turn of u
RecordedNow(u) ==
    /\ conversation_history'[u].exists
    /\ Len(conversation_history'[u].turns)
          > HistoryLen(conversation_history, u)

\* C29: the analysis the chatbot route returns with a reply is the analysis
\* of the message of the same request; it is absent exactly when no turn
\* was recorded for this request.
C29_AnalysisOfThisRequest ==
    [][\A u \in Users :
          IsChatbotAnswer(u) =>
             api_response'.body.analysis =
                IF RecordedNow(u)
                THEN << AnalysisOf[api_response'.request] >>
                ELSE << >>]_vars

\* a recorded turn is answered with the analysis of its own message
C29_RecordedTurnsMatch ==
    [][\A u \in Users :
          (IsChatbotAnswer(u) /\ RecordedNow(u)) =>
             api_response'.body.analysis =
                << AnalysisOf[api_response'.request] >>]_vars

(***************************************************************************)
(* Claims about streaks, XP and levels.                                    *)
(***************************************************************************)
\* the step answers a request of u to the named gamification route
IsGamifyRequest(route, u) ==
    /\ api_response'.route = route
    /\ api_response'.user_id = u
    /\ api_response'.current_user = u

\* the request answered before the step was one of u to the named route
WasGamifyRequest(route, u) ==
    /\ api_response.route = route
    /\ api_response.user_id = u
    /\ api_response.current_user = u

\* the streak a user's document holds; 0 without a document or a field
StoredStreak(C, user_id) ==
    IF C[user_id].exists /\ "streak" \in DOMAIN C[user_id]
    THEN C[user_id].streak ELSE 0

\* add_xp answers with the total whenever the progress record exists
C23_LaterCallsReturnTotal ==
    [][\A u \in GamifyUsers :
          (/\ IsGamifyRequest("add_xp", u)
           /\ FindByUserAndType(streaks_collection, u, "progress").exists)
          => /\ api_response'.status = 200
             /\ api_response'.body.xp_added = api_response'.request.xp_amount
             /\ api_response'.body.total_xp =
                   StoredXp(streaks_collection, u)
                      + api_response'.request.xp_amount]_vars

\* C23: add_xp answers 200 with xp_added, the amount of the request, and
\* total_xp, the stored XP plus the amount, the first call for a user
\* included; a progress read that follows reports an xp of at least the
\* amount.
C23_AddXpReturnsTotal ==
    [][\A u \in GamifyUsers :
          /\ IsGamifyRequest("add_xp", u)
             => /\ api_response'.status = 200
                /\ api_response'.body.xp_added =
                      api_response'.request.xp_amount
                /\ api_response'.body.total_xp =
                      StoredXp(streaks_collection, u)
                         + api_response'.request.xp_amount
          /\ (WasGamifyRequest("add_xp", u)
              /\ IsGamifyRequest("get_user_progress", u))
             => /\ api_response'.status = 200
                /\ api_response'.body.xp >= api_response.request.xp_amount
       ]_vars

\* update_streak and get_streak agree whenever the user has no progress
\* record
C24_StreakAloneCounts ==
    [][\A u \in GamifyUsers :
          ~FindByUserAndType(streaks_collection, u, "progress").exists
          => /\ IsGamifyRequest("update_streak", u)
                => /\ api_response'.status = 200
                   /\ api_response'.body.streak =
                         StoredStreak(streaks_collection, u) + 1
             /\ (WasGamifyRequest("update_streak", u)
                 /\ IsGamifyRequest("get_streak", u))
                => /\ api_response'.status = 200
                   /\ api_response'.body.streak = api_response.body.streak
       ]_vars

\* C24: update_streak answers with the stored streak plus one, 1 for a user
\* without one, and a get_streak that follows answers with the same streak,
\* whatever XP and achievement requests came before, a first add_xp
\* included.
C24_StreakCounts ==
    [][\A u \in GamifyUsers :
          /\ IsGamifyRequest("update_streak", u)
             => /\ api_response'.status = 200
                /\ api_response'.body.streak =
                      StoredStreak(streaks_collection, u) + 1
          /\ (WasGamifyRequest("update_streak", u)
              /\ api_response.status = 200
              /\ IsGamifyRequest("get_streak", u))
             => /\ api_response'.status = 200
                /\ "streak" \in DOMAIN api_response'.body
                /\ api_response'.body.streak = api_response.body.streak
       ]_vars

\* the step answers an add_xp request of u with a non-negative amount
AddsXp(u) ==
    /\ IsGamifyRequest("add_xp", u)
    /\ api_response'.request.xp_amount >= 0

\* the level a user's progress record holds; 1 without a record
StoredLevel(C, user_id) ==
    IF FindByUserAndType(C, user_id, "progress").exists
    THEN C[user_id].level ELSE 1

\* adding XP never lowers the stored level
C30_LevelNeverLowered ==
    [][\A u \in GamifyUsers :
          AddsXp(u) => StoredLevel(streaks_collection', u)
                          >= StoredLevel(streaks_collection, u)]_vars

\* C30: after any sequence of add_xp and check_achievements requests the
\* stored level is calculate_level of the stored XP, and adding XP never
\* lowers the stored level.
C30_LevelMatchesXp ==
    /\ [](\A u \in GamifyUsers :
             FindByUserAndType(streaks_collection, u, "progress").exists
             => streaks_collection[u].level
                   = calculate_level(streaks_collection[u].xp))
    /\ [][\A u \in GamifyUsers :
             AddsXp(u) => StoredLevel(streaks_collection', u)
                             >= StoredLevel(streaks_collection, u)]_vars

(***************************************************************************)
(* Specifications.                                                         *)
(***************************************************************************)
DetectNext ==
    AnalyzeDistress /\ UNCHANGED <<riskVars, chatVars, concVars, apiVars>>
InitDetect == DetectInit /\ RiskIdle /\ ChatIdle /\ ConcIdle /\ ApiIdle
SpecDetect == InitDetect /\ [][DetectNext]_vars

RiskNext ==
    CalculateRiskScore /\ UNCHANGED <<detectVars, chatVars, concVars, apiVars>>
InitRisk == RiskInit /\ DetectIdle /\ ChatIdle /\ ConcIdle /\ ApiIdle
SpecRisk == InitRisk /\ [][RiskNext]_vars

Next ==
    \/ \E u \in Users : \E inp \in TurnInputs[u] : GetReply(u, inp)
    \/ \E u \in Users : \E limit \in HistoryLimits : GetHistory(u, limit)
    \/ \E u \in Users : ResetSession(u)
    \/ Tick
Init == ChatInit /\ DetectIdle /\ RiskIdle /\ ConcIdle /\ ApiIdle
Spec == Init /\ [][Next]_vars

TableNext == \E inp \in TableInputs : TableTurn(inp)
InitTable == TableInit /\ DetectIdle /\ RiskIdle /\ ConcIdle /\ ApiIdle
SpecTable == InitTable /\ [][TableNext]_vars

ConcNext ==
    \/ \E th \in Threads : \E u \in Users : \E inp \in ConcInputs :
          Enter(th, u, inp)
    \/ \E th \in Threads : Cleanup(th)
    \/ \E th \in Threads : Lookup(th)
    \/ \E th \in Threads : InitSession(th)
    \/ \E th \in Threads : ReadState(th)
    \/ \E th \in Threads : Respond(th)
    \/ \E th \in Threads : Record(th)
InitConc == ConcInit /\ DetectIdle /\ RiskIdle /\ ApiIdle
SpecConc == InitConc /\ [][ConcNext]_vars

OverlapNext ==
    \/ \E th \in Threads : \E u \in OverlapUsers : \E inp \in OverlapInputs :
          Enter(th, u, inp)
    \/ \E th \in Threads : Cleanup(th)
    \/ \E th \in Threads : Lookup(th)
    \/ \E th \in Threads : InitSession(th)
    \/ \E th \in Threads : ReadState(th)
    \/ \E th \in Threads : Respond(th)
    \/ \E th \in Threads : Record(th)
    \/ \E th \in Threads : \E u \in OverlapUsers : ConcReset(th, u)
    \/ \E th \in Threads : Return(th)
InitOverlap == ChatIdle /\ ConcIdle /\ DetectIdle /\ RiskIdle /\ ApiIdle
SpecOverlap == InitOverlap /\ [][OverlapNext]_vars

ApiNext ==
    \/ \E current_user \in Users : \E user_id \in Users :
          \E inp \in ApiInputs :
             ChatbotInteraction(current_user, user_id, inp)
    \/ \E current_user \in Users : \E user_id \in Users :
          \E limit \in ApiLimits :
             ConversationHistoryRoute(current_user, user_id, limit)
    \/ \E current_user \in Users : \E user_id \in Users :
          ResetChatbotSession(current_user, user_id)
    \/ \E current_user \in Users : \E user_id \in Users :
          \E mood \in Moods : LogMood(current_user, user_id, mood)
    \/ \E current_user \in Users : \E user_id \in Users :
          GetMoodHistory(current_user, user_id)
InitApi == ChatIdle /\ ConcIdle /\ DetectIdle /\ RiskIdle /\ ApiIdle
SpecApi == InitApi /\ [][ApiNext]_vars

GamifyNext ==
    \/ \E user_id \in GamifyUsers : UpdateStreak(user_id)
    \/ \E user_id \in GamifyUsers : GetStreak(user_id)
    \/ \E user_id \in GamifyUsers : \E xp_amount \in XpAmounts :
          AddXp(user_id, xp_amount)
    \/ \E user_id \in GamifyUsers : GetUserProgress(user_id)
    \/ \E user_id \in GamifyUsers : CheckAchievements(user_id)
    \/ \E user_id \in GamifyUsers : \E mood \in Moods :
          LogMood(user_id, user_id, mood)
InitGamify == ChatIdle /\ ConcIdle /\ DetectIdle /\ RiskIdle /\ ApiIdle
SpecGamify == InitGamify /\ [][GamifyNext]_vars

====
